---- MODULE Spec2Model ----
(***************************************************************************)
(* A model of the object store, the pack reader and the working-tree       *)
(* materializer of codecrafters-git-c (src/src/objects.c, src/src/clone.c, *)
(* src/src/storage/object.c).                                              *)
(*                                                                         *)
(* Bytes are naturals 0..255 and every buffer, string and file is a        *)
(* sequence of bytes, so headers, tree entries and pack records are        *)
(* formatted and parsed the way the C code does it.                        *)
(*                                                                         *)
(* Two library functions are modelled by stand-ins:                        *)
(*  - SHA1 (OpenSSL) is a 20-byte lane digest; the invariant               *)
(*    DigestsDistinct checks that it is collision-free on every object     *)
(*    the model stores, which is what the design assumes of SHA-1.         *)
(*  - deflate (zlib) always emits the "stored" encoding of RFC 1950/1951   *)
(*    (CMF FLG | 01 LEN NLEN data | ADLER32), which is what zlib emits for *)
(*    incompressible input, and inflate decodes exactly that subset.       *)
(***************************************************************************)
EXTENDS Integers, Sequences, FiniteSets, TLC

(***************************************************************************)
(* Characters and strings the code writes or compares with.                *)
(***************************************************************************)
NUL == 0
SP == 32
StrBlob == <<98, 108, 111, 98>>
StrTree == <<116, 114, 101, 101>>
StrCommit == <<99, 111, 109, 109, 105, 116>>
StrTag == <<116, 97, 103>>
StrPACK == <<80, 65, 67, 75>>
Mode40000 == <<52, 48, 48, 48, 48>>
Mode100644 == <<49, 48, 48, 54, 52, 52>>

COMPRESSED_CHUNK_SIZE == 1024
SHA_DIGEST_LENGTH == 20
OBJ_COMMIT == 1
OBJ_TREE == 2
OBJ_BLOB == 3
OBJ_TAG == 4
OBJ_OFS_DELTA == 6
OBJ_REF_DELTA == 7

Min(a, b) == IF a < b THEN a ELSE b

Range(s) == { s[i] : i \in DOMAIN s }

\* The first index i >= from with s[i] = b, or 0 (memchr / strchr).
IndexFrom(s, b, from) ==
  LET hits == {i \in from..Len(s) : s[i] = b}
  IN IF hits = {} THEN 0 ELSE CHOOSE i \in hits : \A j \in hits : i <= j

\* A C string read from s: the bytes before the first NUL (all of s if none).
CStr(s) ==
  LET z == IndexFrom(s, NUL, 1)
  IN IF z = 0 THEN s ELSE SubSeq(s, 1, z - 1)

\* sprintf("%zu", n) / sprintf("%d", n) for n >= 0.
RECURSIVE Dec(_)
Dec(n) == IF n < 10 THEN <<48 + n>> ELSE Dec(n \div 10) \o <<48 + (n % 10)>>

\* atoi: leading white space, an optional sign, then digits up to the first
\* byte that is not a digit.
RECURSIVE AtoiDigits(_, _, _)
AtoiDigits(s, i, acc) ==
  IF i > Len(s) \/ s[i] \notin 48..57 THEN acc
  ELSE AtoiDigits(s, i + 1, acc * 10 + (s[i] - 48))

RECURSIVE AtoiFrom(_, _)
AtoiFrom(s, i) ==
  IF i > Len(s) THEN 0
  ELSE IF s[i] = SP \/ s[i] \in 9..13 THEN AtoiFrom(s, i + 1)
  ELSE IF s[i] = 45 THEN 0 - AtoiDigits(s, i + 1, 0)
  ELSE IF s[i] = 43 THEN AtoiDigits(s, i + 1, 0)
  ELSE AtoiDigits(s, i, 0)

Atoi(s) == AtoiFrom(s, 1)

(***************************************************************************)
(* SHA-1 and its hexadecimal rendering.                                    *)
(***************************************************************************)
\* The digest is modelled by 20 independent byte lanes: lane j mixes the bytes
\* at offsets j, j + 20, j + 40, ... with odd weights, lane 1 also the length.
\* DigestsDistinct checks that it separates every object the model handles.
RECURSIVE LaneSum(_, _, _, _)
LaneSum(data, j, lo, hi) ==
  IF lo > hi THEN 0
  ELSE IF lo = hi
    THEN ((2 * lo + 1) * (data[j + SHA_DIGEST_LENGTH * lo] + 1)) % 256
  ELSE LET mid == (lo + hi) \div 2
       IN (LaneSum(data, j, lo, mid) + LaneSum(data, j, mid + 1, hi)) % 256

\* SHA1(data, len, hash): 20 raw bytes.
SHA1(data) ==
  [j \in 1..SHA_DIGEST_LENGTH |->
     (LaneSum(data, j, 0, ((Len(data) - j) \div SHA_DIGEST_LENGTH))
        + (IF j = 1 THEN Len(data) ELSE 7 * j)) % 256]

HexDigit(n) == IF n < 10 THEN 48 + n ELSE 87 + n

\* for (i...) sprintf(hex + i * 2, "%02x", hash[i])
HexEncode(raw) ==
  [i \in 1..(2 * Len(raw)) |->
     IF i % 2 = 1 THEN HexDigit(raw[(i + 1) \div 2] \div 16)
     ELSE HexDigit(raw[i \div 2] % 16)]

\* sha1_hash / the inline hashing of every writer: digest, then hex.
sha1_hash(data) == HexEncode(SHA1(data))

(***************************************************************************)
(* zlib.                                                                   *)
(***************************************************************************)
\* Sum of data[lo..hi] modulo 65521.
RECURSIVE SumBytes(_, _, _)
SumBytes(data, lo, hi) ==
  IF lo > hi THEN 0
  ELSE IF lo = hi THEN data[lo]
  ELSE LET mid == (lo + hi) \div 2
       IN (SumBytes(data, lo, mid) + SumBytes(data, mid + 1, hi)) % 65521

\* Sum of (n - i + 1) * data[i] over lo..hi modulo 65521, n = Len(data).
RECURSIVE SumWeighted(_, _, _)
SumWeighted(data, lo, hi) ==
  IF lo > hi THEN 0
  ELSE IF lo = hi THEN ((Len(data) - lo + 1) * data[lo]) % 65521
  ELSE LET mid == (lo + hi) \div 2
       IN (SumWeighted(data, lo, mid) + SumWeighted(data, mid + 1, hi)) % 65521

\* The Adler-32 check value of data as the 4 big-endian bytes of the trailer.
Adler32(data) ==
  LET a == (1 + SumBytes(data, 1, Len(data))) % 65521
      b == (Len(data) + SumWeighted(data, 1, Len(data))) % 65521
  IN << b \div 256, b % 256, a \div 256, a % 256 >>

\* deflate(..., Z_FINISH) / compress() of the whole buffer: one zlib stream.
\* The stream is the one made of a single stored block: two header bytes, the
\* block header with the length and its complement, the bytes, the Adler-32
\* check value.  It stands for every stream that does not make the data
\* shorter: deflate gains nothing on data without redundancy.
Deflate(data) ==
  LET n == Len(data)
  IN << 120, 156, 1, n % 256, n \div 256, 255 - (n % 256), 255 - (n \div 256) >>
       \o data \o Adler32(data)

\* The zlib stream header check of inflate (method 8, window, FCHECK, no
\* preset dictionary).
ZHeaderOk(cmf, flg) ==
  /\ (cmf * 256 + flg) % 31 = 0
  /\ cmf % 16 = 8
  /\ cmf \div 16 <= 7
  /\ (flg \div 32) % 2 = 0

\* inflate run over the input bytes `input` with room for `limit` output
\* bytes, from a fresh stream: the blocks from position p on, with `out`
\* produced so far.  Result: done (Z_STREAM_END reached), err (a data
\* error), tin (bytes consumed: total_in) and out (bytes produced).
\* Input that runs out is consumed to its end; output that runs out stops
\* the copy where it is.
RECURSIVE InflateBlocks(_, _, _, _)
InflateBlocks(input, limit, p, out) ==
  LET n == Len(input)
      more == [done |-> FALSE, err |-> FALSE, tin |-> n, out |-> out]
      bad(at) == [done |-> FALSE, err |-> TRUE, tin |-> at, out |-> out]
  IN
  IF p > n THEN more
  ELSE
    LET bfinal == input[p] % 2
        btype == (input[p] \div 2) % 4
    IN
    \* Type 3 is invalid.  Types 1 and 2 (Huffman-coded blocks) are outside
    \* the modelled subset and occur in no input of this model.
    IF btype # 0 THEN bad(p)
    ELSE IF n < p + 4 THEN more
    ELSE
      LET len == input[p + 1] + 256 * input[p + 2]
          nlen == input[p + 3] + 256 * input[p + 4]
      IN
      IF len + nlen # 65535 THEN bad(p + 4)
      ELSE
        LET have == n - (p + 4)
            left == limit - Len(out)
            copy == Min(len, Min(have, left))
            out2 == out \o SubSeq(input, p + 5, p + 4 + copy)
            q == p + 5 + len
        IN
        IF copy < len
        THEN [done |-> FALSE, err |-> FALSE, tin |-> p + 4 + copy, out |-> out2]
        ELSE IF bfinal = 0 THEN InflateBlocks(input, limit, q, out2)
        ELSE IF n < q + 3 THEN [more EXCEPT !.out = out2]
        ELSE IF SubSeq(input, q, q + 3) # Adler32(out2)
          THEN [done |-> FALSE, err |-> TRUE, tin |-> q + 3, out |-> out2]
          ELSE [done |-> TRUE, err |-> FALSE, tin |-> q + 3, out |-> out2]

Inflate(input, limit) ==
  IF Len(input) < 2
  THEN [done |-> FALSE, err |-> FALSE, tin |-> Len(input), out |-> <<>>]
  ELSE IF ~ZHeaderOk(input[1], input[2])
  THEN [done |-> FALSE, err |-> TRUE, tin |-> 2, out |-> <<>>]
  ELSE InflateBlocks(input, limit, 3, <<>>)

(***************************************************************************)
(* The object directory .git/objects: fs.dirs is the set of two-character  *)
(* subdirectories, fs.files maps <<dir, name>> to the bytes of the file,   *)
(* fs.root tells whether .git/objects itself exists.                       *)
(***************************************************************************)
EmptyFs == [dirs |-> {}, files |-> << >>, root |-> TRUE]

\* The same where there is no .git/objects at all: the command is run
\* outside a repository.
NoRepoFs == [dirs |-> {}, files |-> << >>, root |-> FALSE]

\* "%s/%.2s/%s": the directory is the first 2 characters, the file name the
\* other 38.  (The buffer malloc'ed for the path is one byte short of the 55
\* bytes sprintf writes; the byte falls into the allocator's rounding of the
\* 54-byte request and is not modelled.)
get_object_path(hash) == << SubSeq(hash, 1, 2), SubSeq(hash, 3, Len(hash)) >>

HasFile(fs, path) == path \in DOMAIN fs.files

\* mkdir(dir, 0755): -1 with ENOENT when .git/objects is missing, with
\* EEXIST when the directory exists.
Mkdir(fs, dir) ==
  IF ~fs.root THEN [fs |-> fs, ret |-> -1, errno |-> "ENOENT"]
  ELSE IF dir \in fs.dirs THEN [fs |-> fs, ret |-> -1, errno |-> "EEXIST"]
  ELSE [fs |-> [fs EXCEPT !.dirs = @ \cup {dir}], ret |-> 0, errno |-> ""]

\* A file opened with "ab" in place of "wb": what is written is added to what
\* the file holds.
WriteFileAppend(fs, path, bytes) ==
  IF path[1] \notin fs.dirs THEN [fs |-> fs, ok |-> FALSE]
  ELSE [fs |-> [fs EXCEPT !.files =
                  [q \in (DOMAIN fs.files) \cup {path} |->
                     IF q # path THEN fs.files[q]
                     ELSE IF q \in DOMAIN fs.files THEN fs.files[q] \o bytes
                     ELSE bytes]],
        ok |-> TRUE]

\* fopen(path, "wb") ... fwrite ... fclose: creates or truncates the file;
\* fails (ok = FALSE) when the directory is missing.
WriteFile(fs, path, bytes) ==
  IF path[1] \notin fs.dirs THEN [fs |-> fs, ok |-> FALSE]
  ELSE [fs |-> [fs EXCEPT !.files =
                  [q \in (DOMAIN fs.files) \cup {path} |->
                     IF q = path THEN bytes ELSE fs.files[q]]],
        ok |-> TRUE]

\* fopen "wb", then deflate(Z_FINISH) in chunks of COMPRESSED_CHUNK_SIZE, each
\* written as it is produced: the file ends as the whole stream.
write_compressed_object(fs, path, data) ==
  LET w == WriteFile(fs, path, Deflate(data))
  IN IF ~w.ok THEN [fs |-> fs, ret |-> 1] ELSE [fs |-> w.fs, ret |-> 0]

\* The result of mkdir is ignored.
store_object(fs, hash, data) ==
  LET path == get_object_path(hash)
      made == Mkdir(fs, path[1])
  IN write_compressed_object(made.fs, path, data)

\* "<type> <size>\0" followed by the content.
Canonical(type, size, content) == type \o <<SP>> \o Dec(size) \o <<NUL>> \o content

\* A blob stored under the hash of the content of the file alone.
create_blob_bare(fs, content) ==
  LET data == Canonical(StrBlob, Len(content), content)
      hex == sha1_hash(content)
  IN [fs |-> store_object(fs, hex, data).fs, hex |-> hex]

\* create_blob_from_file on a file holding `content`: the result of
\* store_object is ignored and the hash is returned.
create_blob_from_file(fs, content) ==
  LET data == Canonical(StrBlob, Len(content), content)
      hex == sha1_hash(data)
  IN [fs |-> store_object(fs, hex, data).fs, hex |-> hex]

\* storage/object.c: mkdir fails the call unless errno is EEXIST;
\* compress() in one piece, then fopen/fwrite.
writeObject(fs, type, content) ==
  LET buffer == Canonical(type, Len(content), content)
      hashOutput == sha1_hash(buffer)
      path == get_object_path(hashOutput)
      made == Mkdir(fs, path[1])
      w == WriteFile(made.fs, path, Deflate(buffer))
  IN IF (made.ret # 0 /\ made.errno # "EEXIST") \/ ~w.ok
     THEN [fs |-> made.fs, ret |-> 1, outHash |-> <<>>]
     ELSE [fs |-> w.fs, ret |-> 0, outHash |-> hashOutput]

(***************************************************************************)
(* read_object.                                                            *)
(***************************************************************************)
NoObject(status) == [status |-> status, type |-> <<>>, size |-> 0, content |-> <<>>]

\* The inner do-while: inflate(Z_NO_FLUSH) into a fresh chunk of output until
\* a call leaves room in it.  `fed` bytes of the file have been handed to the
\* stream so far, `tin` of them are consumed and `buffer` is what was
\* appended.  nul: the function returned NULL.
RECURSIVE InflateChunk(_, _, _, _)
InflateChunk(file, fed, tin, buffer) ==
  LET r == Inflate(SubSeq(file, 1, fed), Len(buffer) + COMPRESSED_CHUNK_SIZE)
      consumed == r.tin - tin
      have == Len(r.out) - Len(buffer)
      Z_OK_or_END == /\ ~r.err
                     /\ (r.done \/ consumed > 0 \/ have > 0)
  IN IF ~Z_OK_or_END THEN [nul |-> TRUE, tin |-> tin, buffer |-> buffer]
     ELSE IF have = COMPRESSED_CHUNK_SIZE THEN InflateChunk(file, fed, r.tin, r.out)
     ELSE [nul |-> FALSE, tin |-> r.tin, buffer |-> r.out]

\* The outer do-while: fread one chunk, run the inner loop, and go on only
\* while (strm.avail_in != 0).
RECURSIVE ReadChunks(_, _, _, _)
ReadChunks(file, fpos, tin, buffer) ==
  LET nread == Min(COMPRESSED_CHUNK_SIZE, Len(file) - fpos)
      r == InflateChunk(file, fpos + nread, tin, buffer)
      avail_in == nread - (r.tin - tin)
  IN IF r.nul THEN r
     ELSE IF avail_in # 0 THEN ReadChunks(file, fpos + nread, r.tin, r.buffer)
     ELSE r

\* The header is parsed with no check of memchr's results.  With no space,
\* memchr is handed NULL + 1; with no NUL after the space, the scan (one byte
\* longer than what is left) leaves the buffer and the copy that follows has a
\* wild size: both end in a fault (status "crash").
ParseObject(buffer) ==
  LET total_size == Len(buffer)
      space == IndexFrom(buffer, SP, 1)
      null == IF space = 0 THEN 0 ELSE IndexFrom(buffer, NUL, space + 1)
  IN IF space = 0 \/ null = 0 THEN NoObject("crash")
     ELSE [status |-> "ok",
           type |-> CStr(SubSeq(buffer, 1, space - 1)),
           size |-> Atoi(SubSeq(buffer, space + 1, total_size)),
           content |-> SubSeq(buffer, null + 1, total_size)]

\* What read_object makes of the outcome r of its loops.
ReadResult(r) == IF r.nul THEN NoObject("null") ELSE ParseObject(r.buffer)

read_object(fs, hash) ==
  IF ~HasFile(fs, get_object_path(hash)) THEN NoObject("null")
  ELSE ReadResult(ReadChunks(fs.files[get_object_path(hash)], 0, 0, << >>))

(***************************************************************************)
(* process_pack_file.  The buffer handed in is `buf` (pack_size = Len(buf)) *)
(* and is not NUL-terminated; `tail` stands for the bytes that happen to   *)
(* follow it in memory (zero beyond them), which strstr, a header read or  *)
(* the inflate window reach when they leave the buffer.  `junk` is the     *)
(* value of the bytes of a malloc'ed block that were never written.        *)
(***************************************************************************)
\* The byte at offset off (from 0) of pack_data.
Mem(buf, tail, off) ==
  IF off < Len(buf) THEN buf[off + 1]
  ELSE IF off < Len(buf) + Len(tail) THEN tail[off - Len(buf) + 1]
  ELSE 0

MemSlice(buf, tail, off, n) == [k \in 1..n |-> Mem(buf, tail, off + k - 1)]

\* strstr(pack_data, "PACK"): the offset of the first occurrence in the C
\* string that starts at pack_data, or -1.
StrStr(buf, tail, needle) ==
  LET cs == CStr(buf \o tail)
      hits == {i \in 1..(Len(cs) - Len(needle) + 1) :
                 SubSeq(cs, i, i + Len(needle) - 1) = needle}
  IN IF hits = {} THEN -1
     ELSE (CHOOSE i \in hits : \A j \in hits : i <= j) - 1

\* ntohl(*(uint32_t *)p)
Ntohl(b) == ((b[1] * 256 + b[2]) * 256 + b[3]) * 256 + b[4]

RECURSIVE Pow2(_)
Pow2(n) == IF n = 0 THEN 1 ELSE 2 * Pow2(n - 1)

\* while (type_byte & 0x80) { type_byte = pack_start[pos++];
\*   obj_size |= ((type_byte & 0x7f) << shift); shift += 7; }
\* The groups of bits are disjoint, so |= adds.  The shift is done in int:
\* it overflows when its result does not fit 31 bits (at shift 25, a group
\* of 64 or more), and is undefined from shift 32 on (ub).
RECURSIVE ReadSizeBytes(_, _, _, _, _, _, _)
ReadSizeBytes(buf, tail, start, pos, type_byte, obj_size, shift) ==
  IF type_byte < 128 THEN [pos |-> pos, size |-> obj_size, ub |-> FALSE]
  ELSE LET b == Mem(buf, tail, start + pos)
       IN IF shift >= 32 \/ (shift >= 25 /\ b % 128 >= Pow2(31 - shift))
          THEN [pos |-> pos + 1, size |-> obj_size, ub |-> TRUE]
          ELSE ReadSizeBytes(buf, tail, start, pos + 1, b,
                             obj_size + (b % 128) * Pow2(shift), shift + 7)

\* The record header at pack_start[pos].
ReadHeader(buf, tail, start, pos) ==
  LET type_byte == Mem(buf, tail, start + pos)
      rest == ReadSizeBytes(buf, tail, start, pos + 1, type_byte, type_byte % 16, 4)
  IN [type |-> (type_byte \div 16) % 8, size |-> rest.size, pos |-> rest.pos,
      ub |-> rest.ub]

TypeStr(type) ==
  IF type = OBJ_COMMIT THEN StrCommit
  ELSE IF type = OBJ_TREE THEN StrTree
  ELSE IF type = OBJ_BLOB THEN StrBlob
  ELSE StrTag

\* obj_data after inflate: what was produced, then the unwritten rest of the
\* malloc(obj_size) block.
Padded(out, size, junk) ==
  [k \in 1..size |-> IF k <= Len(out) THEN out[k] ELSE junk]

\* One iteration of the for loop, then the rest.  st: i (records done), pos,
\* fs, and log, one entry per iteration: the cursor the header was read at
\* (at) and the cursor behind it (hend), the decoded type and size, the
\* avail_in given to inflate (0 when it was not run), what happened and the
\* hash stored.
RECURSIVE PackLoop(_, _, _, _, _, _)
PackLoop(buf, tail, junk, start, num_objects, st) ==
  IF st.i >= num_objects THEN st
  ELSE
    LET h == ReadHeader(buf, tail, start, st.pos)
        entry(what, hash, avail) ==
          [at |-> st.pos, hend |-> h.pos, type |-> h.type, size |-> h.size,
           avail_in |-> avail, what |-> what, hash |-> hash]
        next(pos, fs, e) == [i |-> st.i + 1, pos |-> pos, fs |-> fs,
                             log |-> Append(st.log, e)]
    IN
    IF h.type \in {OBJ_COMMIT, OBJ_TREE, OBJ_BLOB, OBJ_TAG}
    THEN
      LET avail_in == IF h.pos <= Len(buf) THEN Len(buf) - h.pos
                      ELSE Len(buf) + Len(tail)
          r == Inflate(MemSlice(buf, tail, start + h.pos, avail_in), h.size)
      IN
      IF ~r.done
      THEN \* continue: the cursor stays behind the header
           PackLoop(buf, tail, junk, start, num_objects,
                    next(h.pos, st.fs, entry("inflate_failed", <<>>, avail_in)))
      ELSE
        LET full_data == Canonical(TypeStr(h.type), h.size, Padded(r.out, h.size, junk))
            hex_hash == sha1_hash(full_data)
        IN PackLoop(buf, tail, junk, start, num_objects,
                    next(h.pos + r.tin, store_object(st.fs, hex_hash, full_data).fs,
                         entry("stored", hex_hash, avail_in)))
    ELSE IF h.type = OBJ_REF_DELTA
    THEN PackLoop(buf, tail, junk, start, num_objects,
                  next(h.pos + 20, st.fs, entry("ref_delta", <<>>, 0)))
    ELSE PackLoop(buf, tail, junk, start, num_objects,
                  next(h.pos, st.fs, entry("no_case", <<>>, 0)))

\* Result: crash (a fault: strstr on the NULL pointer of an empty response),
\* ret, the store, and the log of the loop.
process_pack_file(fs, buf, tail, junk) ==
  IF Len(buf) = 0 THEN [crash |-> TRUE, ret |-> -1, fs |-> fs, log |-> <<>>]
  ELSE
    LET start == StrStr(buf, tail, StrPACK)
    IN IF start < 0 THEN [crash |-> FALSE, ret |-> 1, fs |-> fs, log |-> <<>>]
       ELSE
         LET num_objects == Ntohl(MemSlice(buf, tail, start + 8, 4))
             st == PackLoop(buf, tail, junk, start, num_objects,
                            [i |-> 0, pos |-> 12, fs |-> fs, log |-> <<>>])
         IN [crash |-> FALSE, ret |-> 0, fs |-> st.fs, log |-> st.log]

(***************************************************************************)
(* parse_tree_object and checkout_tree.                                    *)
(***************************************************************************)
\* The loop `while (pos < obj->size)` over the content, entries collected in
\* acc.  The bound is the size of the header, not the length of the content:
\* a read at or past Len(content) leaves the buffer (oob).
RECURSIVE ParseEntries(_, _, _, _)
ParseEntries(content, size, pos, acc) ==
  IF pos >= size THEN [oob |-> FALSE, entries |-> acc]
  ELSE
    LET n == Len(content)
        \* while (content[pos] != ' ' && mode_pos < 6)
        stops == {k \in pos..(pos + 6) : k = pos + 6 \/ k >= n \/ content[k + 1] = SP}
        mode_end == CHOOSE k \in stops : \A j \in stops : k <= j
        name_start == mode_end + 1
        nul == IndexFrom(content, NUL, name_start + 1)
    IN
    IF (mode_end < pos + 6 /\ mode_end >= n) \/ name_start >= n \/ nul = 0
         \/ nul + SHA_DIGEST_LENGTH > n
    THEN [oob |-> TRUE, entries |-> acc]
    ELSE ParseEntries(content, size, nul + SHA_DIGEST_LENGTH,
           Append(acc, [mode |-> SubSeq(content, pos + 1, mode_end),
                        name |-> SubSeq(content, name_start + 1, nul - 1),
                        hash |-> HexEncode(SubSeq(content, nul + 1,
                                                  nul + SHA_DIGEST_LENGTH))]))

\* nul: the function returned NULL (not a tree).
parse_tree_object(obj) ==
  IF obj.type # StrTree THEN [nul |-> TRUE, oob |-> FALSE, entries |-> <<>>]
  ELSE LET r == ParseEntries(obj.content, obj.size, 0, <<>>)
       IN [nul |-> FALSE, oob |-> r.oob, entries |-> r.entries]

(***************************************************************************)
(* The working directory: wt.dirs is the set of directories (paths are     *)
(* sequences of names, << >> is the directory checkout starts in), wt.files *)
(* maps the path of each regular file to its bytes.                        *)
(***************************************************************************)
EmptyWt == [dirs |-> {<< >>}, files |-> << >>]

Parent(path) == SubSeq(path, 1, Len(path) - 1)

WtExists(wt, path) == path \in wt.dirs \/ path \in DOMAIN wt.files

\* mkdir(path, 0755); the result is not looked at.
WtMkdir(wt, path) ==
  IF WtExists(wt, path) \/ Parent(path) \notin wt.dirs THEN wt
  ELSE [wt EXCEPT !.dirs = @ \cup {path}]

\* fopen(path, "wb"), fwrite, fclose; nothing happens when fopen fails.
WtWrite(wt, path, bytes) ==
  IF path \in wt.dirs \/ Parent(path) \notin wt.dirs THEN wt
  ELSE [wt EXCEPT !.files = [q \in (DOMAIN wt.files) \cup {path} |->
                               IF q = path THEN bytes ELSE wt.files[q]]]

\* fwrite(blob->content, 1, blob->size, f): size bytes starting at the
\* content, which holds Len(content) of them; the rest is read past the
\* block (junk).
BlobBytes(blob, junk) == Padded(blob.content, blob.size, junk)

\* The first two steps of checkout_tree: read_object, then parse_tree_object
\* on its result tree_obj.  status: "fail" (return 1: no object, or not a
\* tree), "crash" (a fault in read_object or in parse_tree_object) or "ok"
\* with the entries.
ParsedTree(tree_obj, tree) ==
  IF tree_obj.status = "crash" THEN [status |-> "crash", entries |-> << >>]
  ELSE IF tree_obj.status = "null" \/ tree.nul
    THEN [status |-> "fail", entries |-> << >>]
  ELSE IF tree.oob THEN [status |-> "crash", entries |-> << >>]
  ELSE [status |-> "ok", entries |-> tree.entries]

TreeOf(tree_obj) == ParsedTree(tree_obj, parse_tree_object(tree_obj))

OpenTree(fs, tree_hash) == TreeOf(read_object(fs, tree_hash))

\* The recursion of checkout_tree is held as a stack of frames (entries, i,
\* prefix), the innermost call last; st is (crash, wt, frames).
Frame(entries, prefix) == [entries |-> entries, i |-> 1, prefix |-> prefix]

\* A directory entry: mkdir was done (made), sub is the tree opened by the
\* recursive call, whose result is not looked at.
EnterDir(made, rest, path, sub) ==
  IF sub.status = "crash" THEN [crash |-> TRUE, wt |-> made, frames |-> rest]
  ELSE IF sub.status = "fail" THEN [crash |-> FALSE, wt |-> made, frames |-> rest]
  ELSE [crash |-> FALSE, wt |-> made,
        frames |-> Append(rest, Frame(sub.entries, path))]

\* Any other entry: blob is what read_object returned for its hash.
WriteBlob(wt, rest, path, blob, junk) ==
  IF blob.status = "crash" THEN [crash |-> TRUE, wt |-> wt, frames |-> rest]
  ELSE IF blob.status = "null" THEN [crash |-> FALSE, wt |-> wt, frames |-> rest]
  ELSE [crash |-> FALSE, wt |-> WtWrite(wt, path, BlobBytes(blob, junk)),
        frames |-> rest]

\* A path made of the name alone, the directory it lies in left out.
FlatPath(prefix, name) == << name >>

\* snprintf(path, sizeof(path), "%s/%s", prefix, name)
EntryPath(prefix, name) == Append(prefix, name)

\* One turn of the for loop of the innermost call (or its return).
CheckoutStep(fs, st, junk) ==
  LET n == Len(st.frames)
      f == st.frames[n]
      e == f.entries[f.i]
      path == EntryPath(f.prefix, e.name)
      rest == [st.frames EXCEPT ![n].i = @ + 1]
  IN IF f.i > Len(f.entries)
     THEN [st EXCEPT !.frames = SubSeq(st.frames, 1, n - 1)]
     ELSE IF e.mode = Mode40000
     THEN EnterDir(WtMkdir(st.wt, path), rest, path, OpenTree(fs, e.hash))
     ELSE WriteBlob(st.wt, rest, path, read_object(fs, e.hash), junk)

RECURSIVE CheckoutFrames(_, _, _)
CheckoutFrames(fs, st, junk) ==
  IF st.crash \/ st.frames = << >> THEN st
  ELSE CheckoutFrames(fs, CheckoutStep(fs, st, junk), junk)

\* From the opened root on: return 1 when it is no tree, else the loop and
\* return 0.
CheckoutFrom(root, done) ==
  IF root.status = "crash" \/ done.crash
  THEN [ret |-> -1, crash |-> TRUE, wt |-> done.wt]
  ELSE IF root.status = "fail" THEN [ret |-> 1, crash |-> FALSE, wt |-> done.wt]
  ELSE [ret |-> 0, crash |-> FALSE, wt |-> done.wt]

CheckoutRoot(fs, wt, root, prefix, junk) ==
  CheckoutFrom(root,
    CheckoutFrames(fs, [crash |-> FALSE, wt |-> wt,
                        frames |-> IF root.status = "ok"
                                   THEN << Frame(root.entries, prefix) >>
                                   ELSE << >>], junk))

\* checkout_tree(tree_hash, prefix).  Result: ret, crash and the working
\* directory.
checkout_tree(fs, wt, tree_hash, prefix, junk) ==
  CheckoutRoot(fs, wt, OpenTree(fs, tree_hash), prefix, junk)

(***************************************************************************)
(* The inputs the operations are run on.                                   *)
(***************************************************************************)
BigLen == 1100
MaxRecords == 2
MaxOps == 2

\* A file whose object, compressed, does not fit one chunk of
\* COMPRESSED_CHUNK_SIZE bytes.
BigContent == [i \in 1..BigLen |-> (7 * i) % 251]

\* The files hash-object is given: empty, "x", "a\0b" and the big one.
Contents == { << >>, <<120>>, <<97, 0, 98>>, BigContent }

Obj(type, content) == [type |-> type, content |-> content]
Oid(o) == SHA1(Canonical(o.type, Len(o.content), o.content))

\* One tree entry as write_tree_recursive lays it out:
\* "<mode> <name>\0" and the 20 raw bytes of the hash.
Entry(mode, name, o) == mode \o <<SP>> \o name \o <<NUL>> \o Oid(o)

BlobX == Obj(StrBlob, <<120>>)
BlobNul == Obj(StrBlob, <<97, 0, 98>>)
BlobBig == Obj(StrBlob, BigContent)
\* d/: g -> "x"
TreeSub == Obj(StrTree, Entry(Mode100644, <<103>>, BlobX))
\* d/ -> TreeSub, f -> "a\0b"
TreeRoot == Obj(StrTree, Entry(Mode40000, <<100>>, TreeSub)
                           \o Entry(Mode100644, <<102>>, BlobNul))
\* b -> the big file
TreeBig == Obj(StrTree, Entry(Mode100644, <<98>>, BlobBig))
\* "tree <hex>\n\nm\n"
CommitRoot == Obj(StrCommit, StrTree \o <<SP>> \o HexEncode(Oid(TreeRoot))
                               \o <<10, 10, 109, 10>>)
\* "object <hex>\n"
TagRoot == Obj(StrTag, <<111, 98, 106, 101, 99, 116, SP>>
                         \o HexEncode(Oid(CommitRoot)) \o <<10>>)
\* The target of the delta records: "xy", made from "x".
BlobXY == Obj(StrBlob, <<120, 121>>)

Objects == { Obj(StrBlob, c) : c \in Contents }
             \cup { BlobXY, TreeSub, TreeRoot, TreeBig, CommitRoot, TagRoot }

ObjectHash == [o \in Objects |-> HexEncode(Oid(o))]

\* What checkout of each tree should leave in an empty directory.
WtOf(dirs, files) == [dirs |-> {<< >>} \cup dirs, files |-> files]
ExpectedSub == WtOf({}, [q \in {<< <<103>> >>} |-> <<120>>])
ExpectedRoot ==
  WtOf({<< <<100>> >>},
       [q \in {<< <<100>>, <<103>> >>, << <<102>> >>} |->
          IF q = << <<102>> >> THEN <<97, 0, 98>> ELSE <<120>>])
ExpectedBig == WtOf({}, [q \in {<< <<98>> >>} |-> BigContent])
Trees == { TreeSub, TreeRoot, TreeBig }
Expected(t) ==
  IF t = TreeSub THEN ExpectedSub
  ELSE IF t = TreeRoot THEN ExpectedRoot ELSE ExpectedBig
\* The objects a tree reaches, itself included.
Reach(t) ==
  IF t = TreeSub THEN {TreeSub, BlobX}
  ELSE IF t = TreeRoot THEN {TreeRoot, TreeSub, BlobX, BlobNul}
  ELSE {TreeBig, BlobBig}

\* The values the bytes of a block that were never written may hold.
Junks == {0, 255}

(***************************************************************************)
(* Pack responses.  A record is described by its bytes in the pack, what   *)
(* kind of record it is and the object it stands for.                      *)
(***************************************************************************)
TypeCode(type) ==
  IF type = StrCommit THEN OBJ_COMMIT
  ELSE IF type = StrTree THEN OBJ_TREE
  ELSE IF type = StrBlob THEN OBJ_BLOB
  ELSE OBJ_TAG

\* The size in groups of 7 bits, low group first, MSB set on all but the last.
RECURSIVE SizeBytes(_)
SizeBytes(n) ==
  IF n < 128 THEN <<n>> ELSE <<128 + (n % 128)>> \o SizeBytes(n \div 128)

\* The record header read_size / process_pack_file decode: type in bits 4-6
\* and the low 4 bits of the size in the first byte.
PackHeader(type, size) ==
  IF size < 16 THEN << type * 16 + size >>
  ELSE << 128 + type * 16 + (size % 16) >> \o SizeBytes(size \div 16)

Rec(kind, bytes, obj) == [kind |-> kind, bytes |-> bytes, obj |-> obj]

RecObject(o) ==
  Rec("object",
      PackHeader(TypeCode(o.type), Len(o.content)) \o Deflate(o.content), o)

\* Delta data: size of the base (1), size of the result (2), then one insert
\* instruction of 2 bytes; applied to "x" it gives "xy".
DeltaXY == <<1, 2, 2, 120, 121>>
RecRefDelta ==
  Rec("delta", PackHeader(OBJ_REF_DELTA, Len(DeltaXY)) \o Oid(BlobX)
                 \o Deflate(DeltaXY), BlobXY)
\* The base is named by the distance back to its record.
RecOfsDelta ==
  Rec("delta", PackHeader(OBJ_OFS_DELTA, Len(DeltaXY))
                 \o <<Len(RecObject(BlobX).bytes)>> \o Deflate(DeltaXY), BlobXY)
\* "x" with the last byte of the check value of its stream flipped.
RecCorrupt ==
  LET z == Deflate(<<120>>)
  IN Rec("corrupt", PackHeader(OBJ_BLOB, 1)
                      \o [z EXCEPT ![Len(z)] = 255 - @], BlobX)
\* "xy" under a header that declares 4 bytes, and one that declares 1.
RecLong == Rec("long", PackHeader(OBJ_BLOB, 4) \o Deflate(<<120, 121>>), BlobXY)
RecShort == Rec("short", PackHeader(OBJ_BLOB, 1) \o Deflate(<<120, 121>>), BlobXY)

\* The records by name.
RecNames ==
  { "x", "sub", "commit", "tag", "big",
    "ref_delta", "ofs_delta", "corrupt", "long", "short" }

RecOf(name) ==
  CASE name = "x" -> RecObject(BlobX)
    [] name = "nul" -> RecObject(BlobNul)
    [] name = "sub" -> RecObject(TreeSub)
    [] name = "root" -> RecObject(TreeRoot)
    [] name = "treebig" -> RecObject(TreeBig)
    [] name = "commit" -> RecObject(CommitRoot)
    [] name = "tag" -> RecObject(TagRoot)
    [] name = "big" -> RecObject(BlobBig)
    [] name = "ref_delta" -> RecRefDelta
    [] name = "ofs_delta" -> RecOfsDelta
    [] name = "corrupt" -> RecCorrupt
    [] name = "long" -> RecLong
    [] OTHER -> RecShort

\* The packs: every sequence of up to MaxRecords of the records above, and
\* four repositories: a whole one, one without the blob of f, one without
\* the tree of d, and one with the big file.
RecSeqs ==
  UNION { [1..k -> RecNames] : k \in 0..MaxRecords }
    \cup { << "commit", "root", "sub", "nul", "x" >>,
           << "root", "sub", "x" >>,
           << "root", "nul" >>,
           << "treebig", "big" >> }

RECURSIVE Concat(_, _)
Concat(recs, i) ==
  IF i > Len(recs) THEN << >> ELSE RecOf(recs[i]).bytes \o Concat(recs, i + 1)

\* "0008NAK\n", the line upload-pack answers before the pack.
PktNAK == <<48, 48, 48, 56, 78, 65, 75, 10>>

\* The response: NAK, "PACK", version 2, the count, the records and the
\* checksum of the pack.
PackBytes(recs, count) ==
  LET body == StrPACK \o <<0, 0, 0, 2>> \o <<0, 0, 0, count>> \o Concat(recs, 1)
  IN PktNAK \o body \o SHA1(body)

\* Responses without a pack: an empty one, NAK alone, NAK and "PAC".
Raws == { "empty", "nak", "nak_pac" }

PackInput(sig, recs, count, raw) ==
  [sig |-> sig, recs |-> recs, count |-> count, raw |-> raw]

\* Responses with a pack (the count right, one short, one over) and without.
PackInputs ==
  UNION { { PackInput(TRUE, recs, c, "") :
              c \in {Len(recs), Len(recs) + 1} \cup ({Len(recs) - 1} \ {-1}) } :
          recs \in RecSeqs }
    \cup { PackInput(FALSE, << >>, 0, raw) : raw \in Raws }

\* The bytes of a response.
Response(input) ==
  IF input.sig THEN PackBytes(input.recs, input.count)
  ELSE IF input.raw = "empty" THEN << >>
  ELSE IF input.raw = "nak" THEN PktNAK
  ELSE PktNAK \o <<80, 65, 67>>

\* What may follow the response in memory: nothing but zeros, or what is
\* left of an earlier copy of a response.
Tails == { << >>, PackBytes(<< "x" >>, 1) }

(***************************************************************************)
(* Trees that hold the same entries in different orders.  A tree object    *)
(* that comes out of a pack lists its entries in whatever order the sender *)
(* wrote them, and checkout_tree walks them in that order.                 *)
(***************************************************************************)
\* d/: g -> "x", f -> "x", in this order or the other.
OrderSub(rev) ==
  Obj(StrTree,
      IF rev THEN Entry(Mode100644, <<102>>, BlobX) \o Entry(Mode100644, <<103>>, BlobX)
      ELSE Entry(Mode100644, <<103>>, BlobX) \o Entry(Mode100644, <<102>>, BlobX))

\* d/ -> sub, f -> "a\0b", in this order or the other.
OrderTop(rev, sub) ==
  Obj(StrTree,
      IF rev THEN Entry(Mode100644, <<102>>, BlobNul) \o Entry(Mode40000, <<100>>, sub)
      ELSE Entry(Mode40000, <<100>>, sub) \o Entry(Mode100644, <<102>>, BlobNul))

OrderTrees == { OrderTop(r, OrderSub(s)) : r, s \in BOOLEAN }

\* The response that carries the objects of objs as one pack.
RECURSIVE ConcatObjects(_, _)
ConcatObjects(objs, i) ==
  IF i > Len(objs) THEN << >>
  ELSE RecObject(objs[i]).bytes \o ConcatObjects(objs, i + 1)

PackOf(objs) ==
  LET body == StrPACK \o <<0, 0, 0, 2>> \o <<0, 0, 0, Len(objs)>>
                \o ConcatObjects(objs, 1)
  IN PktNAK \o body \o SHA1(body)

\* The object directory after process_pack_file on that response in a fresh
\* repository.
StoreOf(objs) == process_pack_file(EmptyFs, PackOf(objs), << >>, 0).fs

\* The four trees with everything they reach, and the same without the blob
\* of f.
OrderObjects ==
  << OrderTop(FALSE, OrderSub(FALSE)), OrderTop(FALSE, OrderSub(TRUE)),
     OrderTop(TRUE, OrderSub(FALSE)), OrderTop(TRUE, OrderSub(TRUE)),
     OrderSub(FALSE), OrderSub(TRUE), BlobX, BlobNul >>

(***************************************************************************)
(* write-tree: write_tree_recursive over the working directory.            *)
(***************************************************************************)
\* A comparison by length alone: the shorter name first.
LenCmp(a, b) == Len(a) - Len(b)

\* strcmp(a, b) on names (no NUL inside): the difference of the first pair
\* of bytes that differ, taken as unsigned char; the end of a string counts
\* as the byte 0.
StrCmp(a, b) ==
  LET at(s, k) == IF k <= Len(s) THEN s[k] ELSE NUL
      diff == {k \in 1..(Min(Len(a), Len(b)) + 1) : at(a, k) # at(b, k)}
  IN IF diff = {} THEN 0
     ELSE LET k == CHOOSE x \in diff : \A y \in diff : x <= y
          IN at(a, k) - at(b, k)

\* for (i...) for (j = i + 1...) if (strcmp(entries[i].name, entries[j].name)
\* > 0) swap: from the pair (i, j) on.
RECURSIVE SortEntries(_, _, _)
SortEntries(entries, i, j) ==
  IF i > Len(entries) THEN entries
  ELSE IF j > Len(entries) THEN SortEntries(entries, i + 1, i + 2)
  ELSE IF StrCmp(entries[i].name, entries[j].name) > 0
    THEN SortEntries([entries EXCEPT ![i] = entries[j], ![j] = entries[i]],
                     i, j + 1)
  ELSE SortEntries(entries, i, j + 1)

HexVal(c) ==
  IF c \in 48..57 THEN c - 48
  ELSE IF c \in 97..102 THEN c - 87
  ELSE c - 55

\* The 40 digits written as they are.
HexKept(hex) == hex

\* for (j = 0; j < 40; j += 2) sscanf(hash + j, "%2x", &byte): the hash is
\* 40 hexadecimal digits.
HexToRaw(hex) ==
  [i \in 1..(Len(hex) \div 2) |-> HexVal(hex[2 * i - 1]) * 16 + HexVal(hex[2 * i])]

\* The content of a tree: for each entry "<mode> ", the name, a NUL and the
\* 20 raw bytes of the hash.
RECURSIVE TreeContent(_, _)
TreeContent(entries, i) ==
  IF i > Len(entries) THEN << >>
  ELSE entries[i].mode \o <<SP>> \o entries[i].name \o <<NUL>>
         \o HexToRaw(entries[i].hash) \o TreeContent(entries, i + 1)

Dot == <<46>>
DotDot == <<46, 46>>
DotGit == <<46, 103, 105, 116>>

\* should_ignore_path on the last component of the path.
should_ignore_path(base) == base \in {DotGit, Dot, DotDot}

\* The names in directory dir of the working directory, in some fixed order.
RECURSIVE SetToSeq(_)
SetToSeq(S) ==
  IF S = {} THEN << >>
  ELSE LET x == CHOOSE y \in S : TRUE IN << x >> \o SetToSeq(S \ {x})

Children(wt, dir) ==
  { q[Len(q)] : q \in { r \in wt.dirs \cup DOMAIN wt.files :
                          Len(r) = Len(dir) + 1 /\ Parent(r) = dir } }

\* What readdir returns for dir: ".", "..", at the top ".git", and the names
\* in the directory in an order the file system chooses: order is a
\* permutation of positions, applied to as many names as there are.
Readdir(wt, dir, order) ==
  LET names == SetToSeq(Children(wt, dir))
      n == Len(names)
      picks == SelectSeq(order, LAMBDA k : k <= n)
  IN << Dot, DotDot >> \o (IF dir = << >> THEN << DotGit >> ELSE << >>)
       \o [k \in 1..n |-> names[picks[k]]]

TreeEntry(mode, name, hash) == [mode |-> mode, name |-> name, hash |-> hash]

\* The tail of write_tree_recursive: sort, lay out, hash and store.  st
\* carries the store and the trees written so far.
FinishTree(st, dir, entries) ==
  LET sorted == SortEntries(entries, 1, 2)
      content == TreeContent(sorted, 1)
      full_content == Canonical(StrTree, Len(content), content)
      hex_hash == sha1_hash(full_content)
  IN [fs |-> store_object(st.fs, hex_hash, full_content).fs,
      trees |-> Append(st.trees, [dir |-> dir, hex |-> hex_hash,
                                  entries |-> sorted]),
      hex |-> hex_hash]

\* The readdir loop of write_tree_recursive(dir) from the k-th name on, with
\* the entries collected in acc; a directory is written by the recursive
\* call, a regular file by create_blob_from_file.
RECURSIVE write_tree_recursive(_, _, _, _, _, _, _)
write_tree_recursive(st, wt, dir, names, k, acc, order) ==
  IF k > Len(names) THEN FinishTree(st, dir, acc)
  ELSE IF should_ignore_path(names[k])
    THEN write_tree_recursive(st, wt, dir, names, k + 1, acc, order)
  ELSE IF Append(dir, names[k]) \in wt.dirs
    THEN LET sub == write_tree_recursive(st, wt, Append(dir, names[k]),
                      Readdir(wt, Append(dir, names[k]), order), 1, << >>, order)
         IN write_tree_recursive(sub, wt, dir, names, k + 1,
              Append(acc, TreeEntry(Mode40000, names[k], sub.hex)), order)
  ELSE LET b == create_blob_from_file(st.fs, wt.files[Append(dir, names[k])])
       IN write_tree_recursive([st EXCEPT !.fs = b.fs], wt, dir, names, k + 1,
            Append(acc, TreeEntry(Mode100644, names[k], b.hex)), order)

\* handle_write_tree: write_tree_recursive("."), the hash printed.
handle_write_tree(fs, wt, order) ==
  write_tree_recursive([fs |-> fs, trees |-> << >>, hex |-> << >>], wt, << >>,
                       Readdir(wt, << >>, order), 1, << >>, order)

(***************************************************************************)
(* clone: ref discovery, fetch and the stages of handle_clone.             *)
(***************************************************************************)
StrMaster ==
  <<114, 101, 102, 115, 47, 104, 101, 97, 100, 115, 47, 109, 97, 115, 116, 101, 114>>
StrHEAD == <<72, 69, 65, 68>>

\* get_commit_hash_from_refs(refs).  refs points at buf, which write_callback
\* filled and did not terminate; tail is what follows it in memory and junk
\* the value of the bytes in front of it.  line = marker - 41, then
\* strncpy(hash, line, 40): the copy stops at a NUL.  under: bytes in front
\* of the buffer were read.
get_commit_hash_from_refs(buf, tail, junk) ==
  LET master == StrStr(buf, tail, StrMaster)
      marker == IF master >= 0 THEN master ELSE StrStr(buf, tail, StrHEAD)
      line == marker - 41
  IN IF marker < 0 THEN [nul |-> TRUE, hash |-> << >>, under |-> FALSE]
     ELSE [nul |-> FALSE,
           hash |-> CStr([k \in 1..40 |->
                            IF line + k - 1 < 0 THEN junk
                            ELSE Mem(buf, tail, line + k - 1)]),
           under |-> line < 0]

\* fetch_pack up to the PackFile it returns: NULL when the first request
\* fails or brings nothing (refs_ok), when no hash is found, or when the
\* second request fails (pack_ok).
fetch_pack(refs_ok, refs, tail, junk, pack_ok) ==
  IF ~refs_ok \/ Len(refs) = 0 THEN [nul |-> TRUE, commit_hash |-> << >>, under |-> FALSE]
  ELSE LET h == get_commit_hash_from_refs(refs, tail, junk)
       IN [nul |-> h.nul \/ ~pack_ok, commit_hash |-> h.hash, under |-> h.under]

\* sscanf(content, "tree %40s", tree_hash): "tree", any white space, then up
\* to 40 bytes that are not white space.  n is the number of conversions;
\* with none tree_hash keeps what the stack held, a name (made of junk) that
\* nothing is stored under.
Sscanf(content, junk) ==
  LET white(c) == c = SP \/ c \in 9..13
      n == Len(content)
      from == CHOOSE k \in 5..(n + 1) :
                /\ k = n + 1 \/ ~white(content[k])
                /\ \A j \in 5..(k - 1) : white(content[j])
      ends == {k \in from..(from + 40) :
                 k = from + 40 \/ k > n \/ white(content[k]) \/ content[k] = NUL}
      to == CHOOSE k \in ends : \A j \in ends : k <= j
  IN IF n < 4 \/ SubSeq(content, 1, 4) # StrTree \/ to = from
     THEN [n |-> 0, tree_hash |-> [k \in 1..40 |-> HexDigit(junk % 16)]]
     ELSE [n |-> 1, tree_hash |-> SubSeq(content, from, to - 1)]

\* read_object of a name that may be no hash at all: only a name of 40
\* characters can be the path of a stored object.
ReadNamed(fs, hash) ==
  IF Len(hash) # 40 THEN NoObject("null") ELSE read_object(fs, hash)

Stage(name, ok) == [name |-> name, ok |-> ok]

\* The end of handle_clone: the commit was read, the tree hash scanned and
\* checkout_tree called; its result co is dropped and 0 returned.
CloneEnd(log, pf, scanned, co) ==
  [ret |-> IF co.crash THEN -1 ELSE 0, crash |-> co.crash, fs |-> pf.fs,
   wt |-> co.wt,
   log |-> log \o << Stage("tree_hash", scanned.n = 1),
                     Stage("checkout", co.ret = 0) >>]

CloneScan(log, pf, wt, scanned, junk) ==
  CloneEnd(log, pf, scanned,
           IF Len(scanned.tree_hash) # 40
           THEN [ret |-> 1, crash |-> FALSE, wt |-> wt]
           ELSE checkout_tree(pf.fs, wt, scanned.tree_hash, << >>, junk))

\* From the commit object on.
CloneCommit(log, pf, wt, commit_obj, junk) ==
  IF commit_obj.status = "crash"
  THEN [ret |-> -1, crash |-> TRUE, fs |-> pf.fs, wt |-> wt, log |-> log]
  ELSE IF commit_obj.status = "null"
  THEN [ret |-> 1, crash |-> FALSE, fs |-> pf.fs, wt |-> wt,
        log |-> Append(log, Stage("read_commit", FALSE))]
  ELSE CloneScan(Append(log, Stage("read_commit", TRUE)), pf, wt,
                 Sscanf(commit_obj.content, junk), junk)

\* From the result pf of process_pack_file on.
ClonePack(log, wt, pack, pf, junk) ==
  IF pf.crash
  THEN [ret |-> -1, crash |-> TRUE, fs |-> pf.fs, wt |-> wt, log |-> log]
  ELSE IF pf.ret # 0
  THEN [ret |-> 1, crash |-> FALSE, fs |-> pf.fs, wt |-> wt,
        log |-> Append(log, Stage("process_pack_file", FALSE))]
  ELSE CloneCommit(Append(log, Stage("process_pack_file", TRUE)), pf, wt,
                   ReadNamed(pf.fs, pack.commit_hash), junk)

\* handle_clone(url, dir) where dir exists or not, pack is what fetch_pack
\* returned and data the response it holds.  The directory is new and empty
\* when mkdir succeeds, so handle_init in it succeeds.
handle_clone(exists, pack, data, tail, junk) ==
  IF exists
  THEN [ret |-> 1, crash |-> FALSE, fs |-> EmptyFs, wt |-> EmptyWt,
        log |-> << Stage("setup", FALSE) >>]
  ELSE IF pack.nul
  THEN [ret |-> 1, crash |-> FALSE, fs |-> EmptyFs, wt |-> EmptyWt,
        log |-> << Stage("setup", TRUE), Stage("init", TRUE),
                   Stage("fetch_pack", FALSE) >>]
  ELSE ClonePack(<< Stage("setup", TRUE), Stage("init", TRUE),
                    Stage("fetch_pack", TRUE) >>,
                 EmptyWt, pack,
                 process_pack_file(EmptyFs, data, tail, junk), junk)

(***************************************************************************)
(* commit-tree and cat-file.                                               *)
(***************************************************************************)
DashP == <<45, 112>>
DashM == <<45, 109>>
LF == 10
StrParent == <<112, 97, 114, 101, 110, 116>>
\* "CodeCrafter <codecrafter@example.com>"
Author ==
  <<67, 111, 100, 101, 67, 114, 97, 102, 116, 101, 114, SP, 60, 99, 111, 100,
    101, 99, 114, 97, 102, 116, 101, 114, 64, 101, 120, 97, 109, 112, 108,
    101, 46, 99, 111, 109, 62>>
\* "Devin Lynch <devin@lynch.com>"
AuthorCmd ==
  <<68, 101, 118, 105, 110, SP, 76, 121, 110, 99, 104, SP, 60, 100, 101, 118,
    105, 110, 64, 108, 121, 110, 99, 104, 46, 99, 111, 109, 62>>
StrAuthor == <<97, 117, 116, 104, 111, 114>>
StrCommitter == <<99, 111, 109, 109, 105, 116, 116, 101, 114>>
\* " +0000\n"
Zone == <<SP, 43, 48, 48, 48, 48, LF>>

\* The body both commit writers lay out: "tree %s\n", "parent %s\n" for each
\* element of parents (none or one), the author and committer lines, an
\* empty line and the message.
CommitBody(tree_sha, parents, who, now, message) ==
  StrTree \o <<SP>> \o tree_sha \o <<LF>>
    \o (IF parents = << >> THEN << >>
        ELSE StrParent \o <<SP>> \o parents[1] \o <<LF>>)
    \o StrAuthor \o <<SP>> \o who \o <<SP>> \o Dec(now) \o Zone
    \o StrCommitter \o <<SP>> \o who \o <<SP>> \o Dec(now) \o Zone
    \o <<LF>> \o message \o <<LF>>

\* create_commit_object(tree_sha, parent_sha, message) at time now; parents
\* is << >> for parent_sha = NULL.  Nothing is looked up in the store, and
\* the result of store_object is dropped.
create_commit_object(fs, tree_sha, parents, message, now) ==
  LET content == CommitBody(tree_sha, parents, Author, now, message)
      full_content == Canonical(StrCommit, Len(content), content)
      hex_hash == sha1_hash(full_content)
  IN [fs |-> store_object(fs, hex_hash, full_content).fs, hex |-> hex_hash,
      content |-> content]

\* The loop over argv[2], argv[4], ... of handle_commit_tree; opts is argv
\* from argv[2] on.
RECURSIVE ParseOpts(_, _, _, _)
ParseOpts(opts, i, parents, messages) ==
  IF i > Len(opts) THEN [err |-> FALSE, parents |-> parents, messages |-> messages]
  ELSE IF i + 1 > Len(opts)
    THEN [err |-> TRUE, parents |-> parents, messages |-> messages]
  ELSE IF opts[i] = DashP THEN ParseOpts(opts, i + 2, << opts[i + 1] >>, messages)
  ELSE IF opts[i] = DashM THEN ParseOpts(opts, i + 2, parents, << opts[i + 1] >>)
  ELSE ParseOpts(opts, i + 2, parents, messages)

\* handle_commit_tree with argv = commit-tree <tree_sha> opts...
handle_commit_tree(fs, tree_sha, opts, now) ==
  LET o == ParseOpts(opts, 1, << >>, << >>)
      fail == [ret |-> 1, fs |-> fs, hex |-> << >>, content |-> << >>]
  IN IF Len(opts) < 2 \/ o.err \/ o.messages = << >> THEN fail
     ELSE [ret |-> 0] @@ create_commit_object(fs, tree_sha, o.parents,
                                              o.messages[1], now)

\* What "%s" prints for argv[k] of an argv of argc words: the word; for
\* argv[argc], the NULL that ends argv, "(null)"; past it, whatever string
\* the pointer found there leads to (made of junk).
ArgvStr(argv, k, junk) ==
  IF k <= Len(argv) THEN argv[k]
  ELSE IF k = Len(argv) + 1 THEN <<40, 110, 117, 108, 108, 41>>
  ELSE << HexDigit(junk % 16) >>

\* commitTree (cmd/): the words are taken by position, argv[2] the tree,
\* argv[4] the parent and argv[6] the message, whatever the flags are; args
\* is argv from argv[2] on.
commitTree(fs, args, now, junk) ==
  IF Len(args) < 3
  THEN [ret |-> 1, fs |-> fs, hex |-> << >>, content |-> << >>]
  ELSE LET content == CommitBody(args[1], << ArgvStr(args, 3, junk) >>,
                                 AuthorCmd, now, ArgvStr(args, 5, junk))
           w == writeObject(fs, StrCommit, content)
       IN [ret |-> 0, fs |-> w.fs, hex |-> w.outHash, content |-> content]

\* handle_cat_file -p <hash>: printf("%s", obj->content) prints up to the
\* first NUL; the content block is not terminated, after is what follows it
\* in memory before the next NUL.
handle_cat_file(fs, hash, after) ==
  LET obj == read_object(fs, hash)
  IN IF obj.status = "crash" THEN [ret |-> -1, crash |-> TRUE, out |-> << >>]
     ELSE IF obj.status = "null" THEN [ret |-> 1, crash |-> FALSE, out |-> << >>]
     ELSE [ret |-> 0, crash |-> FALSE, out |-> CStr(obj.content \o after)]

\* catFile (cmd/): the whole file, uncompress into 10 times its size, then
\* everything after the first NUL with fwrite.
catFile(fs, hash) ==
  LET path == get_object_path(hash)
      fail == [ret |-> 1, crash |-> FALSE, out |-> << >>]
  IN IF ~HasFile(fs, path) THEN fail
     ELSE LET r == Inflate(fs.files[path], 10 * Len(fs.files[path]))
              nullByte == IndexFrom(r.out, NUL, 1)
          IN IF ~r.done \/ nullByte = 0 THEN fail
             ELSE [ret |-> 0, crash |-> FALSE,
                   out |-> SubSeq(r.out, nullByte + 1, Len(r.out))]

(***************************************************************************)
(* store_object step by step: mkdir, fopen "wb", one fwrite for each chunk *)
(* deflate produces, fclose.  A call is a record: the hash and the stream  *)
(* to write, pc the step it is about to take, off its position in the     *)
(* file, ret its result; had tells whether the object could be read when   *)
(* the call began, over whether it opened the file while another call had  *)
(* it open.                                                                *)
(***************************************************************************)
\* A file opened in append mode: what is written goes to the end.
WriteAtEnd(file, off, bytes) == file \o bytes

\* write(2) at the position of the descriptor: the bytes replace what is
\* there; a gap in front of them reads as zeros.
WriteAt(file, off, bytes) ==
  [k \in 1..(IF Len(file) > off + Len(bytes) THEN Len(file) ELSE off + Len(bytes)) |->
     IF k > off /\ k <= off + Len(bytes) THEN bytes[k - off]
     ELSE IF k <= Len(file) THEN file[k]
     ELSE 0]

\* What one turn of the do-while loop hands to fwrite: the next
\* COMPRESSED_CHUNK_SIZE bytes of the stream, or what is left of it.
Chunk(stream, off) ==
  SubSeq(stream, off + 1, Min(off + COMPRESSED_CHUNK_SIZE, Len(stream)))

StoreCall(data) ==
  [hash |-> sha1_hash(data), stream |-> Deflate(data), pc |-> "mkdir",
   off |-> 0, ret |-> 0, had |-> FALSE, over |-> FALSE]

\* mkdir(dir, 0755), its result not looked at.
MkdirStep(dir, call, readable) ==
  [fs |-> Mkdir(dir, get_object_path(call.hash)[1]).fs,
   call |-> [call EXCEPT !.pc = "fopen", !.had = readable]]

\* fopen(path, "wb"): the file is created, or cut to nothing; return 1 when
\* it cannot be opened.
FopenStep(dir, call, open) ==
  LET w == WriteFile(dir, get_object_path(call.hash), << >>)
  IN IF ~w.ok THEN [fs |-> dir, call |-> [call EXCEPT !.pc = "done", !.ret = 1]]
     ELSE [fs |-> w.fs, call |-> [call EXCEPT !.pc = "fwrite", !.over = open]]

\* deflate and fwrite of one chunk; the loop goes on while the chunk was full.
FwriteStep(dir, call) ==
  LET path == get_object_path(call.hash)
      out == Chunk(call.stream, call.off)
  IN [fs |-> [dir EXCEPT !.files[path] = WriteAt(@, call.off, out)],
      call |-> [call EXCEPT !.off = @ + Len(out),
                            !.pc = IF Len(out) = COMPRESSED_CHUNK_SIZE
                                   THEN "fwrite" ELSE "fclose"]]

\* fclose and return 0.
FcloseStep(dir, call) ==
  [fs |-> dir, call |-> [call EXCEPT !.pc = "done", !.ret = 0]]

(***************************************************************************)
(* ls-tree.                                                                *)
(***************************************************************************)
\* "040000"
GIT_MODE_TREE == <<48, 52, 48, 48, 48, 48>>

\* handle_ls_tree [--name-only] <hash>: one line for each entry of the
\* parsed tree, in its order; in the full format the word after the mode is
\* "tree" when strcmp(mode, GIT_MODE_TREE) == 0 and "blob" otherwise.
handle_ls_tree(fs, hash, name_only) ==
  LET t == OpenTree(fs, hash)
  IN IF t.status = "crash" THEN [ret |-> -1, crash |-> TRUE, out |-> << >>]
     ELSE IF t.status = "fail" THEN [ret |-> 1, crash |-> FALSE, out |-> << >>]
     ELSE [ret |-> 0, crash |-> FALSE,
           out |-> [i \in DOMAIN t.entries |->
                      IF name_only THEN [name |-> t.entries[i].name]
                      ELSE [mode |-> t.entries[i].mode,
                            type |-> IF t.entries[i].mode = GIT_MODE_TREE
                                     THEN StrTree ELSE StrBlob,
                            hash |-> t.entries[i].hash,
                            name |-> t.entries[i].name]]]

(***************************************************************************)
(* The repository as the commands leave it.                                *)
(*   fs      .git/objects                                                  *)
(*   wt      the working directory                                         *)
(*   stored  the hashes store_object / writeObject have written under      *)
(*   last    the last call: its name, argument, result (ret, crash, out),  *)
(*           sret, the result of the store call inside it, and again:      *)
(*           the object it stores had been stored before                   *)
(*   nops    the number of calls so far                                    *)
(*   writers the calls of store_object that are under way, step by step:   *)
(*           none while whole commands are run one after the other         *)
(***************************************************************************)
VARIABLES fs, wt, stored, last, nops, writers

vars == << fs, wt, stored, last, nops, writers >>

Call(op, arg, ret, crash, out, sret, again) ==
  [op |-> op, arg |-> arg, ret |-> ret, crash |-> crash, out |-> out,
   sret |-> sret, again |-> again]

NoCall == Call("none", << >>, 0, FALSE, << >>, 0, FALSE)

\* After init: an empty object directory, an empty working directory.
Init ==
  /\ fs = EmptyFs
  /\ wt = EmptyWt
  /\ stored = {}
  /\ last = NoCall
  /\ nops = 0
  /\ writers = << >>

\* hash-object -w <file> (commands.c): the hash is printed and 0 returned
\* whatever store_object returned.
HandleHashObject(content) ==
  /\ nops < MaxOps
  /\ \E r \in { create_blob_from_file(fs, content) } :
     \E sret \in { store_object(fs, r.hex,
                                Canonical(StrBlob, Len(content), content)).ret } :
     /\ fs' = r.fs
     /\ stored' = IF sret = 0 THEN stored \cup {r.hex} ELSE stored
     /\ last' = Call("handle_hash_object", content, 0, FALSE, r.hex, sret,
                     r.hex \in stored)
     /\ nops' = nops + 1
     /\ UNCHANGED writers
     /\ UNCHANGED wt

\* hash-object -w <file> (cmd/hashobject.c): writeObject("blob", ...), its
\* result ignored, hashOutput printed.
HashObjectCmd(content) ==
  /\ nops < MaxOps
  /\ \E r \in { writeObject(fs, StrBlob, content) } :
     /\ fs' = r.fs
     /\ stored' = IF r.ret = 0 THEN stored \cup {r.outHash} ELSE stored
     /\ last' = Call("hashObject", content, 0, FALSE, r.outHash, r.ret,
                     r.outHash \in stored)
     /\ nops' = nops + 1
     /\ UNCHANGED writers
     /\ UNCHANGED wt

\* read_object(hash), as cat-file, ls-tree, clone and checkout call it.
ReadObject(hash) ==
  /\ nops < MaxOps
  /\ \E r \in { read_object(fs, hash) } :
     /\ last' = Call("read_object", hash, IF r.status = "ok" THEN 0 ELSE 1,
                     r.status = "crash", r, 0, FALSE)
     /\ nops' = nops + 1
     /\ UNCHANGED writers
     /\ UNCHANGED << fs, wt, stored >>

\* process_pack_file on the response of the server, the first thing done in
\* the repository clone has just initialised.
ProcessPackFile(input, tail, junk) ==
  /\ nops < MaxOps
  /\ last = NoCall
  /\ fs = EmptyFs
  /\ \E r \in { process_pack_file(fs, Response(input), tail, junk) } :
       /\ fs' = r.fs
       /\ stored' = stored \cup { e.hash : e \in { x \in Range(r.log) :
                                                     x.what = "stored" } }
       /\ last' = Call("process_pack_file", input, r.ret, r.crash, r.log, 0,
                       FALSE)
       /\ nops' = nops + 1
       /\ UNCHANGED writers
       /\ UNCHANGED wt

\* checkout_tree(tree_hash, ".").
CheckoutTree(tree_hash, junk) ==
  /\ nops < MaxOps
  /\ \E r \in { checkout_tree(fs, wt, tree_hash, << >>, junk) } :
       /\ wt' = r.wt
       /\ last' = Call("checkout_tree", tree_hash, r.ret, r.crash, << >>, 0,
                       FALSE)
       /\ nops' = nops + 1
       /\ UNCHANGED writers
       /\ UNCHANGED << fs, stored >>

\* A hash nothing is stored under.
AbsentHash == HexEncode([j \in 1..SHA_DIGEST_LENGTH |-> 0])

Hashes == { ObjectHash[o] : o \in Objects } \cup { AbsentHash }

Next ==
  \/ \E content \in Contents : HandleHashObject(content)
  \/ \E content \in Contents : HashObjectCmd(content)
  \/ \E hash \in Hashes : ReadObject(hash)
  \/ \E input \in PackInputs, tail \in Tails, junk \in Junks :
       ProcessPackFile(input, tail, junk)
  \/ \E tree_hash \in Hashes, junk \in Junks : CheckoutTree(tree_hash, junk)

Spec == Init /\ [][Next]_vars

(***************************************************************************)
(* A repository whose object directory holds one file that no writer of    *)
(* the program produced (damage, or another tool), under AbsentHash.       *)
(***************************************************************************)
\* What the file inflates to, when it does.
Payloads ==
  { Canonical(StrBlob, 1, <<120>>),                           \* "blob 1\0x"
    <<98, 108, 111, 98, 49, 0, 120>>,                          \* "blob1\0x"
    <<98, 108, 111, 98, SP, 49, 120>>,                         \* "blob 1x"
    << >>,
    Canonical(<<102, 114, 111, 98>>, 1, <<120>>) }             \* "frob 1\0x"

\* The stream whole, cut short, with a wrong check value, and bytes that are
\* no stream at all (an empty file among them).
RawFiles ==
  UNION { { Deflate(p),
            SubSeq(Deflate(p), 1, Len(Deflate(p)) - 3),
            [Deflate(p) EXCEPT ![Len(Deflate(p))] = 255 - @] } : p \in Payloads }
    \cup { << >>, <<1, 2, 3>>, <<120>> }

InitDamaged ==
  /\ \E raw \in RawFiles :
       fs = [dirs |-> { get_object_path(AbsentHash)[1] },
             files |-> [q \in { get_object_path(AbsentHash) } |-> raw],
             root |-> TRUE]
  /\ wt = EmptyWt
  /\ stored = {}
  /\ last = NoCall
  /\ nops = 0
  /\ writers = << >>

\* The commands run in a repository that is there already.
NextLocal ==
  \/ \E content \in Contents : HandleHashObject(content)
  \/ \E content \in Contents : HashObjectCmd(content)
  \/ \E hash \in Hashes : ReadObject(hash)
  \/ \E tree_hash \in Hashes, junk \in Junks : CheckoutTree(tree_hash, junk)

SpecLocal == Init /\ [][NextLocal]_vars

SpecDamaged == InitDamaged /\ [][NextLocal]_vars

\* The digest tells apart all the objects the inputs are made of.
DigestsDistinct ==
  \A o1, o2 \in Objects : ObjectHash[o1] = ObjectHash[o2] => o1 = o2

(***************************************************************************)
(* The claims.                                                             *)
(***************************************************************************)
Returned(o) ==
  [status |-> "ok", type |-> o.type, size |-> Len(o.content),
   content |-> o.content]

\* C1: round trip.  When read_object is called with the hash of an object
\* that store_object / writeObject stored, it returns an object of that
\* kind, with the size and exactly the bytes of its content.
C1_RoundTrip ==
  \A o \in Objects :
    (last.op = "read_object" /\ last.arg = ObjectHash[o]
       /\ ObjectHash[o] \in stored)
      => last.out = Returned(o)

\* C1, a case where it holds: a stored tree read back whole.
C1_ReadBack ==
  /\ last.op = "read_object"
  /\ last.arg = ObjectHash[TreeSub]
  /\ last.arg \in stored
  /\ last.out = Returned(TreeSub)

\* C2: idempotent writes.  A hash-object (store_object, or writeObject) of
\* an object that was stored before leaves the object directory as it was,
\* and the store call reports success (the call that stored it first did:
\* only successful calls are recorded in stored).
C2_Idempotent ==
  [][ (last'.op \in {"handle_hash_object", "hashObject"} /\ last'.again)
        => (fs' = fs /\ last'.sret = 0 /\ stored' = stored) ]_vars

\* C2: the second call has happened, through either writer.
C2_StoredTwice ==
  /\ last.op \in {"handle_hash_object", "hashObject"}
  /\ last.again
  /\ last.arg = BigContent
  /\ last.sret = 0

\* What the whole file under a hash inflates to, all of it at once.
Inflated(hash) ==
  Inflate(fs.files[get_object_path(hash)], Len(fs.files[get_object_path(hash)]))

\* Data with no "<kind> <size>\0" in front: no space, no NUL after it, or a
\* kind that is none of blob, tree, commit, tag.
BadHeader(data) ==
  \/ IndexFrom(data, SP, 1) = 0
  \/ IndexFrom(data, NUL, IndexFrom(data, SP, 1) + 1) = 0
  \/ SubSeq(data, 1, IndexFrom(data, SP, 1) - 1)
       \notin {StrBlob, StrTree, StrCommit, StrTag}

\* C3: read_object fails cleanly.  When nothing is stored under the hash,
\* when the file is no valid stream, or when what it inflates to has no
\* space or NUL in its header or names an unknown kind, read_object returns
\* failure (NULL): it neither faults nor returns an object.
C3_FailsCleanly ==
  (/\ last.op = "read_object"
   /\ \/ ~HasFile(fs, get_object_path(last.arg))
      \/ ~Inflated(last.arg).done
      \/ BadHeader(Inflated(last.arg).out))
    => (last.out.status = "null" /\ ~last.crash)

\* C3, the cases where it holds: nothing under the hash, and bytes zlib
\* refuses.
C3_CleanFailure ==
  /\ last.op = "read_object"
  /\ last.arg = AbsentHash
  /\ HasFile(fs, get_object_path(AbsentHash))
  /\ fs.files[get_object_path(AbsentHash)] = <<1, 2, 3>>
  /\ last.out.status = "null"

\* A response with a pack in it whose count is right and whose records are
\* all whole objects of the four kinds.
WellFormed(input) ==
  /\ input.sig
  /\ input.count = Len(input.recs)
  /\ \A n \in Range(input.recs) : RecOf(n).kind = "object"

Processed(input) == SubSeq(input.recs, 1, Min(input.count, Len(input.recs)))

\* C5: for a pack with a delta record (type 6 or 7) process_pack_file either
\* stores the object the delta resolves to or returns failure; it does not
\* return success with that object absent.
C5_DeltaResolvedOrFailure ==
  (/\ last.op = "process_pack_file"
   /\ last.arg.sig
   /\ \E n \in Range(Processed(last.arg)) : RecOf(n).kind = "delta")
    => (\/ last.ret # 0
        \/ HasFile(fs, get_object_path(ObjectHash[BlobXY])))

\* C6: when the response holds no "PACK", process_pack_file returns failure
\* and the store (empty before the call) is unchanged.
C6_NoSignatureFails ==
  (last.op = "process_pack_file" /\ ~last.arg.sig)
    => (last.ret = 1 /\ ~last.crash /\ fs = EmptyFs)

\* C6, a case where it holds: a response of NAK alone, zeros behind it.
C6_PlainFailure ==
  /\ last.op = "process_pack_file"
  /\ last.arg.raw = "nak"
  /\ last.ret = 1
  /\ fs = EmptyFs

\* C7: when inflate fails for a record, process_pack_file stops there (the
\* record is the last the loop looks at) and returns failure.
C7_InflateFailureAborts ==
  \A i \in DOMAIN last.out :
    (last.op = "process_pack_file" /\ last.out[i].what = "inflate_failed")
      => (last.ret # 0 /\ i = Len(last.out))

\* C8: process_pack_file returns success only when the number of objects it
\* stored is the count the pack header declares.
C8_SuccessMeansAllStored ==
  (last.op = "process_pack_file" /\ last.arg.sig /\ last.ret = 0)
    => Cardinality({ i \in DOMAIN last.out : last.out[i].what = "stored" })
         = last.arg.count

\* C9: when checkout_tree(root, dir) on an empty directory returns success,
\* the directory holds exactly the files and directories of the tree under
\* root, each file with the bytes of its blob.
C9_CheckoutExact ==
  [][ \A t \in Trees :
        (/\ last'.op = "checkout_tree"
         /\ last'.arg = ObjectHash[t]
         /\ last'.ret = 0
         /\ wt = EmptyWt)
          => wt' = Expected(t) ]_vars

\* C9, a case where it holds: the tree with a file and a directory.
C9_CheckedOut ==
  /\ last.op = "checkout_tree"
  /\ last.arg = ObjectHash[TreeRoot]
  /\ last.ret = 0
  /\ wt = ExpectedRoot

\* C10: checkout_tree returns failure when a tree or blob that root reaches
\* is not in the store, and when root is not a tree.
C10_MissingFails ==
  /\ \A t \in Trees :
       (/\ last.op = "checkout_tree"
        /\ last.arg = ObjectHash[t]
        /\ \E o \in Reach(t) : ~HasFile(fs, get_object_path(ObjectHash[o])))
         => last.ret = 1
  /\ \A o \in Objects \ Trees :
       (last.op = "checkout_tree" /\ last.arg = ObjectHash[o]) => last.ret = 1

\* C10, a case where it holds: the root is a commit.
C10_RootNotATree ==
  /\ last.op = "checkout_tree"
  /\ last.arg = ObjectHash[CommitRoot]
  /\ HasFile(fs, get_object_path(ObjectHash[CommitRoot]))
  /\ last.ret = 1

(***************************************************************************)
(* The other commands, and the repositories and working directories they   *)
(* are run in.                                                             *)
(***************************************************************************)
MaxNames == 3
MaxEntries == 2
MaxLines == 3

\* The hashes of the files in an object directory.
StoredIn(dir) == { q[1] \o q[2] : q \in DOMAIN dir.files }

\* The orders readdir may return up to MaxNames names in.
Orders ==
  { s \in [1..MaxNames -> 1..MaxNames] :
      \A i, j \in 1..MaxNames : i # j => s[i] # s[j] }

NameA == <<97>>
NameAB == <<97, 98>>
NameB == <<98>>
NameHigh == <<200>>

\* Working directories: files b, a, ab; files a, b and a directory ab with
\* b, a and a name with a byte above 127; an empty one; a file and an empty
\* directory.
WorkFlat ==
  WtOf({}, [q \in {<<NameB>>, <<NameA>>, <<NameAB>>} |->
              IF q = <<NameB>> THEN <<120>> ELSE << >>])
WorkDeep ==
  WtOf({<<NameAB>>},
       [q \in {<<NameB>>, <<NameA>>, <<NameAB, NameB>>, <<NameAB, NameA>>,
               <<NameAB, NameHigh>>} |->
          IF Len(q) = 1 THEN <<120>> ELSE <<97, 0, 98>>])
WorkHigh ==
  WtOf({<<NameB>>}, [q \in {<<NameHigh>>, <<NameAB>>} |-> <<120>>])
WorkDirs == { WorkFlat, WorkDeep, WorkHigh, EmptyWt }

\* write-tree
WriteTree(order) ==
  /\ nops < MaxOps
  /\ \E r \in { handle_write_tree(fs, wt, order) } :
       /\ fs' = r.fs
       /\ stored' = stored \cup StoredIn(r.fs)
       /\ last' = Call("write_tree", Readdir(wt, << >>, order), 0, FALSE,
                       [hex |-> r.hex, trees |-> r.trees], 0, FALSE)
       /\ nops' = nops + 1
       /\ UNCHANGED writers
       /\ UNCHANGED wt

\* commit-tree <tree_sha> opts... (commands.c)
CommitTree(tree_sha, opts, now) ==
  /\ nops < MaxOps
  /\ \E r \in { handle_commit_tree(fs, tree_sha, opts, now) } :
       /\ fs' = r.fs
       /\ stored' = stored \cup StoredIn(r.fs)
       /\ last' = Call("handle_commit_tree", [tree |-> tree_sha, opts |-> opts],
                       r.ret, FALSE, [hex |-> r.hex, content |-> r.content],
                       0, FALSE)
       /\ nops' = nops + 1
       /\ UNCHANGED writers
       /\ UNCHANGED wt

\* commit-tree args... (cmd/)
CommitTreeCmd(args, now, junk) ==
  /\ nops < MaxOps
  /\ \E r \in { commitTree(fs, args, now, junk) } :
       /\ fs' = r.fs
       /\ stored' = stored \cup StoredIn(r.fs)
       /\ last' = Call("commitTree", [tree |-> args[1], opts |-> Tail(args)],
                       r.ret, FALSE, [hex |-> r.hex, content |-> r.content],
                       0, FALSE)
       /\ nops' = nops + 1
       /\ UNCHANGED writers
       /\ UNCHANGED wt

\* cat-file -p <hash> (commands.c)
CatFile(hash, after) ==
  /\ nops < MaxOps
  /\ \E r \in { handle_cat_file(fs, hash, after) } :
       /\ last' = Call("handle_cat_file", hash, r.ret, r.crash, r.out, 0, FALSE)
       /\ nops' = nops + 1
       /\ UNCHANGED writers
       /\ UNCHANGED << fs, wt, stored >>

\* cat-file -p <hash> (cmd/)
CatFileCmd(hash) ==
  /\ nops < MaxOps
  /\ \E r \in { catFile(fs, hash) } :
       /\ last' = Call("catFile", hash, r.ret, r.crash, r.out, 0, FALSE)
       /\ nops' = nops + 1
       /\ UNCHANGED writers
       /\ UNCHANGED << fs, wt, stored >>

(***************************************************************************)
(* Checkout in a repository that received the trees of OrderTrees.         *)
(***************************************************************************)
OrderHash(o) == HexEncode(Oid(o))

\* What checkout is asked for: the four trees, the two subtrees, the blobs
\* and a hash nothing is stored under.
OrderHashes ==
  { OrderHash(OrderObjects[i]) : i \in DOMAIN OrderObjects } \cup { AbsentHash }

\* Directories checkout runs in: an empty one, one where d is a regular
\* file, one where f is a directory.
OrderDirs ==
  { EmptyWt,
    WtOf({}, [q \in {<< <<100>> >>} |-> <<121>>]),
    WtOf({<< <<102>> >>}, << >>) }

\* The repository holds everything, or everything but the blob of f.
InitTrees ==
  /\ fs \in { StoreOf(OrderObjects),
              StoreOf(SubSeq(OrderObjects, 1, Len(OrderObjects) - 1)) }
  /\ wt \in OrderDirs
  /\ stored = StoredIn(fs)
  /\ last = NoCall
  /\ nops = 0
  /\ writers = << >>

NextTrees == \E tree_hash \in OrderHashes, junk \in Junks : CheckoutTree(tree_hash, junk)

SpecTrees == InitTrees /\ [][NextTrees]_vars

\* C11: checkout_tree of a tree whose entries have distinct names leaves the
\* same working directory whatever the order of the entries in the tree and
\* in its subtrees: run on any of the four trees that hold the same entries,
\* from the same working directory, it gives what it gives on the others.
C11_OrderIndependent ==
  [][ \A t \in OrderTrees :
        (/\ last'.op = "checkout_tree"
         /\ last'.arg = OrderHash(t)
         /\ ~last'.crash)
          => \A u \in OrderTrees :
               LET r == checkout_tree(fs, wt, OrderHash(u), << >>, 0)
               IN r.wt = wt' /\ r.ret = last'.ret ]_vars

\* C11: the tree with f before d/ and, in d/, f before g, checked out in a
\* repository that holds all of it.
C11_ReversedCheckedOut ==
  /\ last.op = "checkout_tree"
  /\ nops = 1
  /\ last.arg = OrderHash(OrderTop(TRUE, OrderSub(TRUE)))
  /\ last.ret = 0
  /\ wt.dirs = { << >>, << <<100>> >> }
  /\ DOMAIN wt.files = { << <<102>> >>, << <<100>>, <<102>> >>, << <<100>>, <<103>> >> }
  /\ wt.files[<< <<102>> >>] = <<97, 0, 98>>
  /\ wt.files[<< <<100>>, <<102>> >>] = <<120>>

(***************************************************************************)
(* write-tree in a fresh repository, over each working directory.          *)
(***************************************************************************)
InitWorkdir ==
  /\ fs = EmptyFs
  /\ wt \in WorkDirs
  /\ stored = {}
  /\ last = NoCall
  /\ nops = 0
  /\ writers = << >>

\* The files hash-object is given where the size of the object does not
\* matter.
SmallContents == Contents \ { BigContent }

NextWorkdir ==
  \/ \E order \in Orders : WriteTree(order)
  \/ \E content \in SmallContents : HandleHashObject(content)

SpecWorkdir == InitWorkdir /\ [][NextWorkdir]_vars

\* a comes before b byte by byte, a proper prefix before what extends it.
BytewiseLess(a, b) ==
  \E k \in 1..Len(b) :
    /\ Len(a) >= k - 1
    /\ \A j \in 1..(k - 1) : a[j] = b[j]
    /\ (Len(a) = k - 1 \/ a[k] < b[k])

\* The entries of the tree object stored under hex, as parse_tree_object
\* decodes them.
StoredEntries(hex) == parse_tree_object(read_object(fs, hex)).entries

\* C12: after write-tree there is one tree object for every directory, and
\* it lists the names in the directory, each once, in ascending byte-wise
\* order, whatever the order readdir returned them in.
C12_TreeSorted ==
  last.op = "write_tree" =>
    /\ { t.dir : t \in Range(last.out.trees) } = wt.dirs
    /\ \A t \in Range(last.out.trees) :
         /\ read_object(fs, t.hex).status = "ok"
         /\ Len(StoredEntries(t.hex)) = Cardinality(Children(wt, t.dir))
         /\ { e.name : e \in Range(StoredEntries(t.hex)) } = Children(wt, t.dir)
         /\ \A i, j \in DOMAIN StoredEntries(t.hex) :
              i < j => BytewiseLess(StoredEntries(t.hex)[i].name,
                                    StoredEntries(t.hex)[j].name)

\* C12: readdir returned b, a, ab and the tree stored lists a, ab, b.
C12_SortedFromBAAb ==
  /\ last.op = "write_tree"
  /\ last.arg = << Dot, DotDot, DotGit, NameB, NameA, NameAB >>
  /\ [i \in 1..3 |-> StoredEntries(last.out.hex)[i].name] = << NameA, NameAB, NameB >>

(***************************************************************************)
(* The tree codec on its own: the layout of write_tree_recursive, then     *)
(* parse_tree_object on what it emitted, whole or cut short.               *)
(***************************************************************************)
\* A hash whose raw bytes include 0, 32 and 255.
OddHash == HexEncode([j \in 1..SHA_DIGEST_LENGTH |->
                        IF j % 3 = 0 THEN NUL ELSE IF j % 3 = 1 THEN SP ELSE 255])

\* Entries: both modes; the names g, "a b" and the empty name; two hashes.
CodecEntries ==
  { TreeEntry(mode, name, hash) :
      mode \in {Mode100644, Mode40000},
      name \in { <<103>>, <<97, SP, 98>>, << >> },
      hash \in { HexEncode(Oid(BlobX)), OddHash } }

CodecLists == UNION { [1..k -> CodecEntries] : k \in 0..MaxEntries }

\* The object parse_tree_object is handed: a tree with this content.
TreeObject(content) ==
  [status |-> "ok", type |-> StrTree, size |-> Len(content), content |-> content]

EncodeTree(entries) ==
  /\ last = NoCall
  /\ last' = Call("encode_tree", entries, 0, FALSE, TreeContent(entries, 1), 0, FALSE)
  /\ nops' = nops + 1
  /\ UNCHANGED writers
  /\ UNCHANGED << fs, wt, stored >>

ParseTree ==
  /\ last.op = "encode_tree"
  /\ \E r \in { parse_tree_object(TreeObject(last.out)) } :
       last' = Call("parse_tree_object", last.arg, IF r.nul THEN 1 ELSE 0,
                    r.oob, r.entries, 0, FALSE)
  /\ nops' = nops + 1
  /\ UNCHANGED writers
  /\ UNCHANGED << fs, wt, stored >>

\* parse_tree_object on the first n bytes of the content.  When a read
\* leaves the content (oob) the call faults or goes on with what lies there
\* and returns a tree.
ParseCut(n) ==
  /\ last.op = "encode_tree"
  /\ n < Len(last.out)
  /\ \E r \in { parse_tree_object(TreeObject(SubSeq(last.out, 1, n))) } :
     \E fault \in (IF r.oob THEN BOOLEAN ELSE {FALSE}) :
       last' = Call("parse_cut", [entries |-> last.arg, n |-> n],
                    IF fault THEN -1 ELSE IF r.nul THEN 1 ELSE 0, fault,
                    [oob |-> r.oob, entries |-> r.entries], 0, FALSE)
  /\ nops' = nops + 1
  /\ UNCHANGED writers
  /\ UNCHANGED << fs, wt, stored >>

NextCodec ==
  \/ \E entries \in CodecLists : EncodeTree(entries)
  \/ ParseTree
  \/ \E n \in 0..(MaxEntries * 60) : ParseCut(n)

SpecCodec == Init /\ [][NextCodec]_vars

\* C13: parse_tree_object on the content laid out for a list of entries
\* returns as many entries, with the same mode, name and hexadecimal hash,
\* in the same order.
C13_CodecRoundTrip ==
  last.op = "parse_tree_object" =>
    (last.ret = 0 /\ ~last.crash /\ last.out = last.arg)

\* C13: two entries, a directory named "a b" and a file with the empty
\* name, came back as they were.
C13_TwoEntriesBack ==
  /\ last.op = "parse_tree_object"
  /\ Len(last.arg) = 2
  /\ last.arg[1] = TreeEntry(Mode40000, <<97, SP, 98>>, OddHash)
  /\ last.arg[2].name = << >>
  /\ last.out = last.arg

\* The lengths at which the content of these entries ends with a whole
\* entry.
RECURSIVE EntryEnds(_, _)
EntryEnds(entries, i) ==
  IF i = 0 THEN {0}
  ELSE EntryEnds(entries, i - 1) \cup { Len(TreeContent(SubSeq(entries, 1, i), 1)) }

\* C14: parse_tree_object on content that stops inside an entry (in the
\* mode, in the name or in the 20 bytes of the hash) fails with an error: it
\* returns failure, it does not fault and it reads nothing past the end of
\* the content.
C14_TruncatedFails ==
  (/\ last.op = "parse_cut"
   /\ last.arg.n \notin EntryEnds(last.arg.entries, Len(last.arg.entries)))
    => (last.ret = 1 /\ ~last.crash /\ ~last.out.oob)

(***************************************************************************)
(* Ref discovery: the response of info/refs?service=git-upload-pack as a   *)
(* sequence of pkt-lines, and get_commit_hash_from_refs on it.             *)
(***************************************************************************)
\* "# service=git-upload-pack\n"
StrService ==
  <<35, 32, 115, 101, 114, 118, 105, 99, 101, 61, 103, 105, 116, 45, 117,
  112, 108, 111, 97, 100, 45, 112, 97, 99, 107, 10>>

\* "0000"
StrFlush ==
  <<48, 48, 48, 48>>

\* "multi_ack symref=HEAD:refs/heads/main\n"
StrCaps ==
  <<109, 117, 108, 116, 105, 95, 97, 99, 107, 32, 115, 121, 109, 114, 101,
  102, 61, 72, 69, 65, 68, 58, 114, 101, 102, 115, 47, 104, 101, 97, 100,
  115, 47, 109, 97, 105, 110, 10>>

\* "refs/heads/main"
StrMain ==
  <<114, 101, 102, 115, 47, 104, 101, 97, 100, 115, 47, 109, 97, 105, 110>>

\* The length prefix of a pkt-line: 4 hexadecimal digits, itself counted.
PktLine(payload) ==
  LET n == Len(payload) + 4
  IN << HexDigit(n \div 4096), HexDigit((n \div 256) % 16),
        HexDigit((n \div 16) % 16), HexDigit(n % 16) >> \o payload

\* The commit HEAD points at, and another one.
HeadHash == HexEncode(Oid(CommitRoot))
OtherHash == HexEncode(Oid(TagRoot))

RefLineNames == { "service", "head_caps", "head", "master", "master_other", "main", "bare_head" }

\* The lines: the service announcement and a flush; HEAD followed by a NUL
\* and the capabilities, as the first ref of a real advertisement is; HEAD
\* without them; master at the same commit and at another one; main; and
\* the word HEAD with nothing in front of it.
RefLine(name) ==
  CASE name = "service" -> PktLine(StrService) \o StrFlush
    [] name = "head_caps" -> PktLine(HeadHash \o <<SP>> \o StrHEAD \o <<NUL>> \o StrCaps)
    [] name = "head" -> PktLine(HeadHash \o <<SP>> \o StrHEAD \o <<LF>>)
    [] name = "master" -> PktLine(HeadHash \o <<SP>> \o StrMaster \o <<LF>>)
    [] name = "master_other" -> PktLine(OtherHash \o <<SP>> \o StrMaster \o <<LF>>)
    [] name = "main" -> PktLine(HeadHash \o <<SP>> \o StrMain \o <<LF>>)
    [] OTHER -> StrHEAD \o <<LF>>

RECURSIVE RefBytes(_)
RefBytes(lines) ==
  IF lines = << >> THEN << >> ELSE RefLine(Head(lines)) \o RefBytes(Tail(lines))

RefSeqs == UNION { [1..k -> RefLineNames] : k \in 1..MaxLines }

\* What may follow the response in memory: zeros, or an old line.
RefTails == { << >>, RefLine("master_other") }

\* get_commit_hash_from_refs on a response that is not empty.
GetCommitHash(lines, tail, junk) ==
  /\ last = NoCall
  /\ \E r \in { get_commit_hash_from_refs(RefBytes(lines), tail, junk) } :
       last' = Call("get_commit_hash_from_refs", lines, IF r.nul THEN 1 ELSE 0,
                    FALSE, r, 0, FALSE)
  /\ nops' = nops + 1
  /\ UNCHANGED writers
  /\ UNCHANGED << fs, wt, stored >>

\* The responses clone is run on: a real advertisement with master at HEAD,
\* one with no ref at all, and one where master is at another commit.
CloneRefs ==
  { << "service", "head_caps", "master" >>,
    << "service" >>,
    << "service", "head", "master_other" >> }

\* The packs: the whole repository; without the tree of the commit; without
\* the subtree; without the commit; with a corrupt record; no pack at all.
ClonePacks ==
  { PackInput(TRUE, recs, Len(recs), "") :
      recs \in { << "commit", "root", "sub", "nul", "x" >>,
                 << "commit" >>,
                 << "commit", "root", "nul" >>,
                 << "root", "sub", "nul", "x" >>,
                 << "commit", "corrupt" >> } }
    \cup { PackInput(FALSE, << >>, 0, raw) : raw \in Raws }

\* clone <url> <dir>: dir exists or not, each of the two requests succeeds
\* or not, and the server answers with lines and input.
Clone(exists, refs_ok, lines, pack_ok, input, tail, junk) ==
  /\ last = NoCall
  /\ \E r \in { handle_clone(exists,
                             fetch_pack(refs_ok, RefBytes(lines), << >>, junk, pack_ok),
                             Response(input), tail, junk) } :
       /\ fs' = r.fs
       /\ wt' = r.wt
       /\ stored' = StoredIn(r.fs)
       /\ last' = Call("handle_clone",
                       [exists |-> exists, refs_ok |-> refs_ok, lines |-> lines,
                        pack_ok |-> pack_ok, input |-> input],
                       r.ret, r.crash, r.log, 0, FALSE)
  /\ nops' = nops + 1
  /\ UNCHANGED writers

NextClone ==
  \/ \E lines \in RefSeqs, tail \in RefTails, junk \in Junks :
       GetCommitHash(lines, tail, junk)
  \/ \E exists, refs_ok, pack_ok \in BOOLEAN, lines \in CloneRefs,
        input \in ClonePacks, tail \in Tails, junk \in Junks :
       Clone(exists, refs_ok, lines, pack_ok, input, tail, junk)

SpecClone == Init /\ [][NextClone]_vars

\* The offset of the first occurrence of needle in the bytes s, or -1.
FirstIn(s, needle) ==
  LET hits == {i \in 1..(Len(s) - Len(needle) + 1) :
                 SubSeq(s, i, i + Len(needle) - 1) = needle}
  IN IF hits = {} THEN -1
     ELSE (CHOOSE i \in hits : \A j \in hits : i <= j) - 1

\* The marker the hash is taken from: master if the response has it, else
\* HEAD, else none (-1).
MarkerIn(s) ==
  IF FirstIn(s, StrMaster) >= 0 THEN FirstIn(s, StrMaster) ELSE FirstIn(s, StrHEAD)

\* C15: get_commit_hash_from_refs returns the 40 characters in front of the
\* space before the first "refs/heads/master" of the response, or of the
\* first "HEAD" when the response has no master; it returns no hash when
\* the response has neither; and it reads nothing in front of the response.
C15_HashOfMarker ==
  last.op = "get_commit_hash_from_refs" =>
    LET resp == RefBytes(last.arg)
        at == MarkerIn(resp)
    IN /\ ~last.out.under
       /\ at < 0 => last.out.nul
       /\ at >= 41 => (/\ ~last.out.nul
                       /\ last.out.hash = SubSeq(resp, at - 40, at - 1))

\* C15, a case where it holds: master, at another commit than HEAD, in a
\* response without NUL.
C15_MasterFound ==
  /\ last.op = "get_commit_hash_from_refs"
  /\ last.arg = << "service", "head", "master_other" >>
  /\ last.out.hash = OtherHash
  /\ ~last.out.under

\* C16: handle_clone returns 1 when a stage fails, and the failed stage is
\* the last one run; it returns 0 only with the tree of the head commit in
\* the working directory.
C16_CloneStages ==
  (last.op = "handle_clone" /\ ~last.crash) =>
    /\ \A i \in DOMAIN last.out :
         ~last.out[i].ok => (last.ret = 1 /\ i = Len(last.out))
    /\ last.ret = 0 => wt = ExpectedRoot

\* C16, cases where it holds: the whole repository cloned, and a clone that
\* stops when the pack cannot be fetched.
C16_Cloned ==
  /\ last.op = "handle_clone"
  /\ last.ret = 0
  /\ wt = ExpectedRoot
  /\ Len(last.out) = 7

(***************************************************************************)
(* The commands that write and print objects: hash-object -w, write-tree,  *)
(* commit-tree and cat-file -p, in a repository that holds a commit, in a  *)
(* fresh one, and in a directory where init has not been run.              *)
(***************************************************************************)
RepoObjects == << CommitRoot, TreeRoot, TreeSub, BlobNul, BlobX >>

InitCommands ==
  /\ \E start \in { << EmptyFs, WorkFlat >>, << NoRepoFs, WorkFlat >>,
                    << StoreOf(RepoObjects), EmptyWt >> } :
       /\ fs = start[1]
       /\ wt = start[2]
       /\ stored = StoredIn(start[1])
  /\ last = NoCall
  /\ nops = 0
  /\ writers = << >>

\* The message "m" and the time of the commit.
Message == <<109>>
Times == { 1, 1700000000 }

\* What commit-tree is given as its tree: a stored tree, a stored blob, a
\* hash that is not stored.
TreeArgs == { HexEncode(Oid(TreeRoot)), HexEncode(Oid(BlobX)), AbsentHash }

\* The words after the tree: -m alone, -p and -m in both orders, -p twice,
\* -p alone, -m without its value, nothing.
OptLists ==
  { << DashM, Message >>,
    << DashP, HeadHash, DashM, Message >>,
    << DashM, Message, DashP, HeadHash >>,
    << DashP, OtherHash, DashP, HeadHash, DashM, Message >>,
    << DashP, HeadHash >>,
    << DashM >>,
    << >> }

\* What follows the content of an object in memory up to the next NUL.
Afters == { << >>, <<33>> }

NextCommands ==
  \/ \E content \in SmallContents : HandleHashObject(content)
  \/ \E content \in SmallContents : HashObjectCmd(content)
  \/ \E order \in Orders : WriteTree(order)
  \/ \E tree_sha \in TreeArgs, opts \in OptLists, now \in Times :
       CommitTree(tree_sha, opts, now)
  \/ \E tree_sha \in TreeArgs, opts \in OptLists, now \in Times, junk \in Junks :
       CommitTreeCmd(<< tree_sha >> \o opts, now, junk)
  \/ \E hash \in stored \cup { AbsentHash }, after \in Afters : CatFile(hash, after)
  \/ \E hash \in stored \cup { AbsentHash } : CatFileCmd(hash)

SpecCommands == InitCommands /\ [][NextCommands]_vars

\* The hash the last command printed.
Printed ==
  IF last.op \in { "handle_hash_object", "hashObject" } THEN last.out
  ELSE last.out.hex

\* The object with this hash can be read back from the store.
Readable(dir, hash) ==
  /\ Len(hash) = 2 * SHA_DIGEST_LENGTH
  /\ read_object(dir, hash).status = "ok"

\* C17: when hash-object -w, write-tree or commit-tree has printed a hash
\* and returned 0, the object with that hash is in the store and can be
\* read; a command whose object could not be written has returned 1.
C17_PrintedIsStored ==
  (/\ last.op \in { "handle_hash_object", "hashObject", "write_tree",
                    "handle_commit_tree", "commitTree" }
   /\ last.ret = 0)
    => Readable(fs, Printed)

\* C17, a case where it holds: in a fresh repository hash-object -w has
\* printed the hash of a blob that is read back.
C17_BlobStored ==
  /\ last.op = "handle_hash_object"
  /\ last.ret = 0
  /\ last.arg = <<97, 0, 98>>
  /\ Readable(fs, Printed)
  /\ read_object(fs, Printed).content = last.arg

\* C18: commit-tree stores a commit only when its tree argument is the hash
\* of a tree in the store; otherwise it fails and the store is unchanged.
C18_TreeMustBeStored ==
  [][(last'.op \in { "handle_commit_tree", "commitTree" } /\ nops' = nops + 1) =>
       IF /\ get_object_path(last'.arg.tree) \in DOMAIN fs.files
          /\ read_object(fs, last'.arg.tree).type = StrTree
       THEN TRUE
       ELSE last'.ret = 1 /\ fs' = fs]_vars

\* C18, a case where it holds: a commit stored for a tree that is stored.
C18_CommitOfStoredTree ==
  /\ last.op = "handle_commit_tree"
  /\ last.ret = 0
  /\ last.arg.tree = HexEncode(Oid(TreeRoot))
  /\ Readable(fs, last.arg.tree)
  /\ read_object(fs, last.arg.tree).type = StrTree
  /\ Readable(fs, Printed)
  /\ read_object(fs, Printed).type = StrCommit

\* The lines of a commit body in front of its first empty line.
RECURSIVE HeaderLines(_, _)
HeaderLines(body, from) ==
  LET nl == IndexFrom(body, LF, from)
  IN IF nl = 0 \/ nl = from THEN << >>
     ELSE << SubSeq(body, from, nl - 1) >> \o HeaderLines(body, nl + 1)

\* How many of the lines start with the word and a space.
LinesOf(lines, word) ==
  Cardinality({ i \in DOMAIN lines :
                  /\ Len(lines[i]) > Len(word)
                  /\ SubSeq(lines[i], 1, Len(word) + 1) = word \o <<SP>> })

\* The words after the tree hold -p and a value for it.
ParentSupplied(opts) ==
  \E i \in 1..(Len(opts) - 1) : opts[i] = DashP

\* C19: the body of a commit written by commit-tree has one tree line and
\* at most one parent line, and it has a parent line exactly when -p was
\* given: commit-tree <tree> -m <message> writes a commit without parent.
C19_ParentIffDashP ==
  (last.op \in { "handle_commit_tree", "commitTree" } /\ last.ret = 0) =>
    LET lines == HeaderLines(last.out.content, 1)
    IN /\ LinesOf(lines, StrTree) = 1
       /\ LinesOf(lines, StrParent) <= 1
       /\ (LinesOf(lines, StrParent) = 1) <=> ParentSupplied(last.arg.opts)

\* C19, cases where it holds: a root commit from -m alone, with the body
\* read back from the store.
C19_RootCommit ==
  /\ last.op = "handle_commit_tree"
  /\ last.ret = 0
  /\ last.arg.opts = << DashM, Message >>
  /\ LinesOf(HeaderLines(last.out.content, 1), StrParent) = 0
  /\ LinesOf(HeaderLines(last.out.content, 1), StrTree) = 1
  /\ Readable(fs, Printed)
  /\ read_object(fs, Printed).content = last.out.content

\* The content of a stored object: what its file inflates to, after the
\* header.
ContentOf(dir, hash) ==
  LET buffer == Inflate(dir.files[get_object_path(hash)], BigLen + BigLen).out
  IN SubSeq(buffer, IndexFrom(buffer, NUL, 1) + 1, Len(buffer))

\* C20: cat-file -p <hash> prints the content of the stored object, byte
\* for byte, also when the content holds a NUL or does not end with one.
C20_PrintsContent ==
  (last.op \in { "handle_cat_file", "catFile" } /\ last.ret = 0 /\ ~last.crash) =>
    last.out = ContentOf(fs, last.arg)

\* C20, a case where it holds: the blob "a", NUL, "b" printed whole.
C20_NulPrinted ==
  /\ last.op = "catFile"
  /\ last.ret = 0
  /\ last.arg = HexEncode(Oid(BlobNul))
  /\ last.out = <<97, 0, 98>>

(***************************************************************************)
(* Every command that writes to the store, in sequence: clone or pack      *)
(* ingestion first, in the repository it has just initialised, then        *)
(* hash-object, write-tree, commit-tree and checkout.                      *)
(***************************************************************************)
InitStore ==
  /\ fs = EmptyFs
  /\ wt \in { EmptyWt, WorkFlat }
  /\ stored = {}
  /\ last = NoCall
  /\ nops = 0
  /\ writers = << >>

\* The packs: a whole repository; a record that declares more bytes than
\* its stream holds, and one that declares fewer; a corrupt record after a
\* good one; a delta before a good one; and no pack.
StorePacks ==
  { PackInput(TRUE, recs, Len(recs), "") :
      recs \in { << "commit", "root", "sub", "nul", "x" >>,
                 << "long" >>, << "short" >>, << "x", "long" >>,
                 << "x", "corrupt" >>, << "ref_delta", "x" >> } }
    \cup { PackInput(FALSE, << >>, 0, "nak") }

StoreOpts == { << DashM, Message >>, << DashP, HeadHash, DashM, Message >>, << >> }

NextStore ==
  \/ \E input \in StorePacks, junk \in Junks : ProcessPackFile(input, << >>, junk)
  \/ \E exists \in BOOLEAN, lines \in CloneRefs, input \in ClonePacks :
       wt = EmptyWt /\ Clone(exists, TRUE, lines, TRUE, input, << >>, 0)
  \/ \E content \in SmallContents : HandleHashObject(content)
  \/ \E content \in SmallContents : HashObjectCmd(content)
  \/ \E order \in Orders : WriteTree(order)
  \/ \E tree_sha \in TreeArgs, opts \in StoreOpts : CommitTree(tree_sha, opts, 1)
  \/ \E tree_sha \in TreeArgs, opts \in StoreOpts :
       CommitTreeCmd(<< tree_sha >> \o opts, 1, 0)
  \/ \E tree_hash \in { HexEncode(Oid(TreeRoot)), AbsentHash }, junk \in Junks :
       CheckoutTree(tree_hash, junk)

SpecStore == InitStore /\ [][NextStore]_vars

\* The hash a file of the store is named by.
HashAt(path) == path[1] \o path[2]

\* C21: the store is append-only: an object that can be read before a
\* command can be read after it, with the same kind, size and content,
\* whether the command succeeds or fails.
C21_AppendOnly ==
  [][\A path \in DOMAIN fs.files :
       read_object(fs, HashAt(path)).status = "ok" =>
         /\ path \in DOMAIN fs'.files
         /\ read_object(fs', HashAt(path)) = read_object(fs, HashAt(path))]_vars

\* C21, a case: the objects of a pack are still read after a commit-tree
\* that failed and after one that stored a commit.
C21_KeptAcrossCommands ==
  /\ nops = 2
  /\ last.op = "handle_commit_tree"
  /\ Cardinality(DOMAIN fs.files) >= 5
  /\ Readable(fs, HexEncode(Oid(BlobNul)))
  /\ read_object(fs, HexEncode(Oid(BlobNul))).content = BlobNul.content

(***************************************************************************)
(* One or two calls of store_object taken step by step, in any order, each *)
(* of which may be stopped (the process killed) before any of its steps.   *)
(***************************************************************************)
\* What the calls store: the blob "x" and the blob of BigLen bytes, whose
\* stream takes two chunks.
WriterData ==
  { Canonical(StrBlob, Len(c), c) : c \in { <<120>>, BigContent } }

InitWriters ==
  /\ fs = EmptyFs
  /\ wt = EmptyWt
  /\ stored = {}
  /\ last = NoCall /\ nops = 0
  /\ writers \in { << StoreCall(d) >> : d \in WriterData }
                   \cup { << StoreCall(d), StoreCall(e) >> : d, e \in WriterData }

\* The calls that have the file of w open.
OpenBeside(w) ==
  { v \in DOMAIN writers \ {w} :
      /\ writers[v].hash = writers[w].hash
      /\ writers[v].pc \in { "fwrite", "fclose" } }

Step(w) ==
  /\ writers[w].pc \in { "mkdir", "fopen", "fwrite", "fclose" }
  /\ \E r \in { CASE writers[w].pc = "mkdir" ->
                       MkdirStep(fs, writers[w], Readable(fs, writers[w].hash))
                  [] writers[w].pc = "fopen" ->
                       FopenStep(fs, writers[w], OpenBeside(w) # {})
                  [] writers[w].pc = "fwrite" -> FwriteStep(fs, writers[w])
                  [] OTHER -> FcloseStep(fs, writers[w]) } :
       /\ fs' = r.fs
       /\ writers' = [writers EXCEPT ![w] = r.call]
       /\ stored' = IF r.call.pc = "done" /\ r.call.ret = 0
                    THEN stored \cup { r.call.hash } ELSE stored
  /\ UNCHANGED << wt, last, nops >>

\* The process is killed.
Stop(w) ==
  /\ writers[w].pc \in { "mkdir", "fopen", "fwrite", "fclose" }
  /\ writers' = [writers EXCEPT ![w].pc = "stopped"]
  /\ UNCHANGED << fs, wt, stored, last, nops >>

NextWriters ==
  \/ \E w \in DOMAIN writers : Step(w)
  \/ \E w \in DOMAIN writers : Stop(w)

SpecWriters == InitWriters /\ [][NextWriters]_vars

AtRest == \A w \in DOMAIN writers : writers[w].pc \in { "done", "stopped" }

\* C21 for a command that stops part-way: once every call has ended, an
\* object that could be read when a call began can still be read.
C21_KeptThroughFailure ==
  AtRest => \A w \in DOMAIN writers :
              writers[w].had => Readable(fs, writers[w].hash)

\* C22: every file of the store, at every moment, inflates to the whole
\* canonical bytes of an object, and their hash is its path.
C22_FilesWhole ==
  \A path \in DOMAIN fs.files :
    LET r == Inflate(fs.files[path], BigLen + BigLen)
    IN /\ r.done
       /\ get_object_path(sha1_hash(r.out)) = path

\* C22, a case: two objects written to the end, both files whole.
C22_WholeAfterClose ==
  /\ Len(writers) = 2
  /\ \A w \in DOMAIN writers : writers[w].pc = "done" /\ writers[w].ret = 0
  /\ Cardinality(DOMAIN fs.files) = 2
  /\ C22_FilesWhole

\* C23: two calls that store the same object and both run to their end, in
\* any interleaving of their steps, both return 0, and the store holds one
\* file, at the path of the object, with the whole stream.
C23_SameObjectTwice ==
  (/\ Len(writers) = 2
   /\ writers[1].hash = writers[2].hash
   /\ \A w \in DOMAIN writers : writers[w].pc = "done")
    => /\ \A w \in DOMAIN writers : writers[w].ret = 0
       /\ DOMAIN fs.files = { get_object_path(writers[1].hash) }
       /\ fs.files[get_object_path(writers[1].hash)] = writers[1].stream

\* C23, a case: the two-chunk object stored by two calls, one of which
\* cut the file while the other had it open.
C23_Overlapped ==
  /\ Len(writers) = 2
  /\ writers[1].hash = writers[2].hash
  /\ \A w \in DOMAIN writers : writers[w].pc = "done" /\ writers[w].ret = 0
  /\ \E w \in DOMAIN writers : writers[w].over
  /\ Len(writers[1].stream) > COMPRESSED_CHUNK_SIZE
  /\ fs.files[get_object_path(writers[1].hash)] = writers[1].stream

\* C21, a case: an object stored a second time by a call that ran to its
\* end can be read as before.
C21_StoredAgainWhole ==
  /\ Len(writers) = 2
  /\ \A w \in DOMAIN writers : writers[w].pc = "done"
  /\ \E w \in DOMAIN writers : writers[w].had
  /\ Readable(fs, writers[1].hash)

\* What a file of the store inflates to.
InflatedFile(path) == Inflate(fs.files[path], BigLen + BigLen).out

\* The bytes after the first NUL.
AfterNul(buffer) == SubSeq(buffer, IndexFrom(buffer, NUL, 1) + 1, Len(buffer))

\* C24: every file of the store lies in the directory named by the first 2
\* hexadecimal digits, under the other 38, of the digest of the bytes it
\* inflates to, header and content; never of the content alone.
C24_ContentAddressed ==
  \A path \in DOMAIN fs.files :
    LET hex == HexEncode(SHA1(InflatedFile(path)))
    IN /\ path = << SubSeq(hex, 1, 2), SubSeq(hex, 3, 2 * SHA_DIGEST_LENGTH) >>
       /\ path[1] \in fs.dirs
       /\ IndexFrom(InflatedFile(path), NUL, 1) > 0
       /\ HashAt(path) # HexEncode(SHA1(AfterNul(InflatedFile(path))))

\* C24, a case: the objects of a pack, and a blob, a tree or a commit
\* written after them.
C24_PackThenCommand ==
  /\ nops = 2
  /\ last.op \in { "handle_hash_object", "write_tree", "handle_commit_tree" }
  /\ Cardinality(DOMAIN fs.files) >= 6
  /\ C24_ContentAddressed

\* The size written in the header of what a file inflates to: the digits
\* between the first space and the first NUL.
HeaderSize(buffer) ==
  SubSeq(buffer, IndexFrom(buffer, SP, 1) + 1, IndexFrom(buffer, NUL, 1) - 1)

\* What the stream of the record whose header is at cursor `at` inflates to.
RecordInflated(resp, at) ==
  LET start == StrStr(resp, << >>, StrPACK)
      h == ReadHeader(resp, << >>, start, at)
  IN Inflate(SubSeq(resp, start + h.pos + 1, Len(resp)), BigLen + BigLen).out

\* C25: the size in the header of every stored object is the number of
\* bytes after the NUL, and no pack record is stored whose stream inflates
\* to another length than its header declares.
C25_SizeIsLength ==
  /\ \A path \in DOMAIN fs.files :
       HeaderSize(InflatedFile(path)) = Dec(Len(AfterNul(InflatedFile(path))))
  /\ last.op = "process_pack_file" =>
       \A i \in DOMAIN last.out :
         last.out[i].what = "stored" =>
           Len(RecordInflated(Response(last.arg), last.out[i].at)) = last.out[i].size

\* C25, a case: the records of a whole repository stored, each with the
\* length it declares.
C25_DeclaredSizesStored ==
  /\ last.op = "process_pack_file"
  /\ Len(last.out) = 5
  /\ \A i \in DOMAIN last.out : last.out[i].what = "stored"
  /\ C25_SizeIsLength

(***************************************************************************)
(* The header of a pack record, decoded on its own.                        *)
(***************************************************************************)
MaxMore == 5

\* Headers of 1 to MaxMore + 1 bytes: the first holds the continuation bit,
\* a type and the low 4 bits of the size, each further one 7 bits, the
\* continuation bit set on all but the last.
RECURSIVE MoreBytes(_)
MoreBytes(k) ==
  IF k = 0 THEN { << >> }
  ELSE { << (IF k > 1 THEN 128 ELSE 0) + v >> \o rest :
           v \in { 1, 64, 127 }, rest \in MoreBytes(k - 1) }

Headers ==
  UNION { { << (IF k > 0 THEN 128 ELSE 0) + type * 16 + low >> \o more :
              type \in { OBJ_BLOB, OBJ_REF_DELTA }, low \in { 0, 15 },
              more \in MoreBytes(k) } : k \in 0..MaxMore }

\* The first lines of the loop body of process_pack_file, on a buffer that
\* starts with the header.
DecodeHeader(header) ==
  /\ last = NoCall
  /\ last' = Call("read_header", header, 0, FALSE,
                  ReadHeader(header, << >>, 0, 0), 0, FALSE)
  /\ nops' = nops + 1
  /\ UNCHANGED << fs, wt, stored, writers >>

NextHeader == \E header \in Headers : DecodeHeader(header)

SpecHeader == Init /\ [][NextHeader]_vars

\* The sum of (b[i] & 0x7F) * 2^(4 + 7(i - 1)) over the bytes after the first.
RECURSIVE SizeSum(_, _)
SizeSum(b, i) ==
  IF i > Len(b) - 1 THEN 0
  ELSE (b[i + 1] % 128) * Pow2(4 + 7 * (i - 1)) + SizeSum(b, i + 1)

\* C26: a header b0..bk decodes to the type in bits 4-6 of b0 and the size
\* (b0 & 0x0F) + sum of (bi & 0x7F) * 2^(4 + 7(i - 1)), k + 1 bytes are
\* consumed, and no step of it is undefined, whatever the size.
C26_HeaderDecoded ==
  last.op = "read_header" =>
    /\ ~last.out.ub
    /\ last.out.type = (last.arg[1] \div 16) % 8
    /\ last.out.size = (last.arg[1] % 16) + SizeSum(last.arg, 1)
    /\ last.out.pos = Len(last.arg)

\* C26, a case: a header of 4 bytes, the size 15 + 127 * 16 + 127 * 2048
\* + 127 * 262144.
C26_FourBytes ==
  /\ last.op = "read_header"
  /\ last.arg = << 128 + OBJ_BLOB * 16 + 15, 255, 255, 127 >>
  /\ last.out = [type |-> OBJ_BLOB, size |-> 33554431, pos |-> 4, ub |-> FALSE]

\* Where record i of a pack begins, counted from "PACK": after the 12 bytes
\* of the pack header and the records in front of it.
RECURSIVE RecordStart(_, _)
RecordStart(recs, i) ==
  IF i = 1 THEN 12 ELSE RecordStart(recs, i - 1) + Len(RecOf(recs[i - 1]).bytes)

\* C27: at the start of each iteration of the loop of process_pack_file the
\* cursor is on the first header byte of the next record of the pack: each
\* record before it moved the cursor by its header and its compressed bytes.
C27_CursorOnRecord ==
  (last.op = "process_pack_file" /\ last.arg.sig /\ ~last.crash) =>
    \A i \in DOMAIN last.out :
      i <= Len(last.arg.recs) => last.out[i].at = RecordStart(last.arg.recs, i)

\* C27, a case: the five records of a whole repository, each read where it
\* begins.
C27_WholePackAligned ==
  /\ last.op = "process_pack_file"
  /\ last.arg.recs = << "commit", "root", "sub", "nul", "x" >>
  /\ Len(last.out) = 5
  /\ \A i \in 1..5 : /\ last.out[i].at = RecordStart(last.arg.recs, i)
                     /\ last.out[i].what = "stored"

\* C28: every byte process_pack_file reads lies inside the response: the
\* scan for "PACK" ends inside it, the count, every record header, and the
\* window given to inflate (avail_in bytes from the cursor behind the
\* header) end at or before its last byte.
C28_ReadsInside ==
  last.op = "process_pack_file" =>
    LET resp == Response(last.arg)
        hit == FirstIn(CStr(resp), StrPACK)
    IN /\ ~last.crash
       /\ hit >= 0 \/ Len(CStr(resp)) < Len(resp)
       /\ hit >= 0 =>
            /\ hit + 12 <= Len(resp)
            /\ \A i \in DOMAIN last.out :
                 /\ hit + last.out[i].hend <= Len(resp)
                 /\ hit + last.out[i].hend + last.out[i].avail_in <= Len(resp)

\* C28, a case: a pack of one ref-delta record, whose header and base hash
\* are read and nothing else.
C28_HeaderOnlyInside ==
  /\ last.op = "process_pack_file"
  /\ last.arg.recs = << "ref_delta" >>
  /\ last.arg.count = 1
  /\ Len(last.out) = 1
  /\ C28_ReadsInside

(***************************************************************************)
(* write-tree in a working directory, then ls-tree of what it stored, or   *)
(* checkout of it into an empty directory.                                 *)
(***************************************************************************)
\* A working directory with one file of BigLen bytes.
WorkBig == WtOf({}, [q \in { <<NameA>> } |-> BigContent])

InitRound ==
  /\ fs = EmptyFs
  /\ wt \in WorkDirs \cup { WorkBig }
  /\ stored = {}
  /\ last = NoCall /\ nops = 0
  /\ writers = << >>

\* ls-tree [--name-only] <hash>
LsTree(hash, name_only) ==
  /\ nops < MaxOps
  /\ \E r \in { handle_ls_tree(fs, hash, name_only) } :
       last' = Call("handle_ls_tree", [hash |-> hash, name_only |-> name_only],
                    r.ret, r.crash, r.out, 0, FALSE)
  /\ nops' = nops + 1
  /\ UNCHANGED << fs, wt, stored, writers >>

\* checkout_tree(tree_hash, ".") in a directory that is empty, as clone
\* runs it in the directory it has made.
CheckoutFresh(tree_hash, junk) ==
  /\ nops < MaxOps
  /\ \E r \in { checkout_tree(fs, EmptyWt, tree_hash, << >>, junk) } :
       /\ wt' = r.wt
       /\ last' = Call("checkout_tree", tree_hash, r.ret, r.crash, << >>, 0,
                       FALSE)
  /\ nops' = nops + 1
  /\ UNCHANGED << fs, stored, writers >>

NextRound ==
  \/ \E order \in Orders : WriteTree(order)
  \/ \E hash \in stored \cup { AbsentHash }, name_only \in BOOLEAN :
       LsTree(hash, name_only)
  \/ \E tree_hash \in stored, junk \in Junks : CheckoutFresh(tree_hash, junk)

SpecRound == InitRound /\ [][NextRound]_vars

\* C29: ls-tree in full format prints one line for each entry of the stored
\* tree, in its order, with the word "tree" exactly for the entries of mode
\* 40000, the mode write-tree gives a directory, and "blob" for the others.
C29_LabelsDirectories ==
  (last.op = "handle_ls_tree" /\ last.ret = 0 /\ ~last.arg.name_only) =>
    /\ Len(last.out) = Len(StoredEntries(last.arg.hash))
    /\ \A i \in DOMAIN last.out :
         /\ last.out[i].name = StoredEntries(last.arg.hash)[i].name
         /\ last.out[i].type =
              IF StoredEntries(last.arg.hash)[i].mode = Mode40000
              THEN StrTree ELSE StrBlob

\* C29, a case: the three files of a flat directory listed as blobs.
C29_FilesListed ==
  /\ last.op = "handle_ls_tree"
  /\ last.ret = 0
  /\ ~last.arg.name_only
  /\ wt = WorkFlat
  /\ Len(last.out) = 3
  /\ \A i \in DOMAIN last.out : last.out[i].type = StrBlob

\* C30: checkout, into an empty directory, of the hash write-tree returned
\* gives the directories and files write-tree was run on, with their
\* contents, and write-tree on them returns the same hash.
C30_RoundTrip ==
  [][(/\ last.op = "write_tree"
      /\ last'.op = "checkout_tree"
      /\ last'.arg = last.out.hex)
       => /\ last'.ret = 0
          /\ wt' = wt
          /\ \A order \in Orders :
               handle_write_tree(fs', wt', order).hex = last.out.hex]_vars

\* C30, a case: the directory with a subdirectory and a file holding a NUL
\* comes back from checkout, and write-tree gives its hash again.
C30_DeepComesBack ==
  /\ nops = 2
  /\ last.op = "checkout_tree"
  /\ last.ret = 0
  /\ wt = WorkDeep
  /\ \A order \in Orders : handle_write_tree(fs, wt, order).hex = last.arg
====
